---- MODULE Spec2Model ----
(***************************************************************************)
(* Model of src/app.py: the Action Network -> Google Calendar + Discord    *)
(* reconciliation engine (ActionNetworkGoogleDiscordSync.sync_events), its *)
(* platform adapters and the in-memory mapping table event_mappings.       *)
(*                                                                         *)
(* Python values are modelled as follows.  None and the empty string are   *)
(* both falsy in every test the code makes on a destination id, so both    *)
(* are the empty tuple None; a destination id or calendar id is a          *)
(* non-empty tuple.  A dict is a record or a function; event_mappings is a *)
(* function whose DOMAIN is the set of its keys.  An identifier string is  *)
(* the sequence of its ':'-separated segments, a URL the sequence of its   *)
(* '/'-separated segments, a description the sequence of its words.        *)
(***************************************************************************)
EXTENDS Integers, Sequences, FiniteSets, TLC

VARIABLES
    google_service,        \* self.google_service is not None (app.py:57)
    discord_configured,    \* DISCORD_BOT_TOKEN and DISCORD_GUILD_ID (app.py:29-30)
    calendar_ids,          \* hashtag -> GOOGLE_*_CALENDAR_ID or None (app.py:34-40)
    event_mappings,        \* the global mapping table (app.py:46)
    pc,                    \* position of the sync pass: "idle", "loop", "returned"
    an_events,             \* the batch fetched by the running pass (app.py:533)
    idx,                   \* number of events of the batch already processed (app.py:540)
    new_events_count,      \* app.py:535
    updated_events_count,  \* app.py:536
    deleted_events_count,  \* app.py:537
    result,                \* the value sync_events returned (app.py:693-697)
    calls,                 \* platform calls issued while processing the last event
    prev,                  \* per source id: status and modified_date fetched by the previous pass
    platform_events,       \* per platform and source id: the destination events the platform holds
    manual,                \* the sync pass of a /sync request running beside the timer's pass
    time_str,              \* argument of convert_to_utc (app.py:168)
    utc_time,              \* value convert_to_utc returned (app.py:190, 194, 202, 206)
    end_date,              \* end time transform_to_google_event settled on (app.py:209-218)
    delivery,              \* a Discord description built from a source event (app.py:376-396)
    answers,               \* what the platforms answered to the calls of the last step
    pending                \* what a pass holds between its platform calls and its write of the row

vars == <<google_service, discord_configured, calendar_ids, event_mappings, pc,
          an_events, idx, new_events_count, updated_events_count,
          deleted_events_count, result, calls, prev, platform_events, manual,
          time_str, utc_time, end_date, delivery, answers, pending>>

config == <<google_service, discord_configured, calendar_ids>>

(***************************************************************************)
(* Bounds of the model.                                                    *)
(***************************************************************************)
\* Largest number of events in one fetched batch.
MaxBatch == 2
\* Number of distinct modified_date values (versions) a source event can show.
NumVersions == 3
\* Largest number of destination events of one source event a platform holds.
MaxLive == 2

None == <<>>

\* Python truthiness of an id: None and '' are falsy.
Truthy(x) == x # None

(***************************************************************************)
(* The source events the fetch can return.                                 *)
(***************************************************************************)
SourceIds == {"e1", "e2"}

Statuses == {"confirmed", "tentative", "cancelled"}

ModifiedDates == 1..NumVersions

GoodLocation == [wellformed |-> TRUE, parts |-> <<"Union Hall", "Manhattan", "KS">>]

\* A location whose address_lines is not a list of strings: joining raises.
BadLocation == [wellformed |-> FALSE, parts |-> <<>>]

\* The content of a source event changes together with its modified_date.  The
\* last version carries the malformed location.
TitleOf(m) == <<"title", m>>

DescriptionOf(m) == IF m % 2 = 1 THEN <<"Join", "us", "#Outreach">> ELSE <<"Monthly", "canvass">>

LocationOf(m) == IF m = NumVersions THEN BadLocation ELSE GoodLocation

SourceEvent(sid, st, m) ==
    [identifiers   |-> << <<"action_network", sid>> >>,
     id            |-> "",
     browser_url   |-> <<"https:", "", "actionnetwork.org", "events", sid>>,
     title         |-> TitleOf(m),
     description   |-> DescriptionOf(m),
     status        |-> st,
     modified_date |-> m,
     location      |-> LocationOf(m)]

EventsOf(sid) == {SourceEvent(sid, st, m) : st \in Statuses, m \in ModifiedDates}

\* Sequences of at most n events, each of the source ids listed at most once.
RECURSIVE BatchesOver(_, _)
BatchesOver(ids, n) ==
    IF n = 0 \/ ids = {} THEN {<<>>}
    ELSE {<<>>} \cup UNION {{<<e>> \o rest : e \in EventsOf(s),
                                              rest \in BatchesOver(ids \ {s}, n - 1)} :
                            s \in ids}

\* The batches a fetch can return (app.py:109-133; an empty list on failure).
Batches == BatchesOver(SourceIds, MaxBatch)

\* The batches of a source that holds a single event.
SingleEventBatches == BatchesOver({"e1"}, MaxBatch)

(***************************************************************************)
(* Source events whose identifier fields take every shape the extraction   *)
(* distinguishes.  In identifiers, a string is the sequence of its         *)
(* ':'-separated segments (the empty string has the one segment "") and    *)
(* <<>> is an entry that is not a string.                                  *)
(***************************************************************************)
\* An id field that is a JSON object: truthy, and not hashable.
UnhashableId == "{unhashable}"

EventUrl == <<"https:", "", "actionnetwork.org", "events", "slug">>

\* The same URL written with a trailing slash.
EventUrlSlash == EventUrl \o <<"">>

Shape(identifiers, id, browser_url) ==
    [identifiers |-> identifiers, id |-> id, browser_url |-> browser_url]

SourceShapes ==
    {Shape(<< <<"action_network", "abc-123">> >>, "", <<>>),
     Shape(<< <<"plain">>, <<"action_network", "abc-123">> >>, "", <<>>),
     Shape(<< <<>>, <<"osdi", "x", "k9">> >>, "id-7", <<>>),
     Shape(<< <<"action_network", "">> >>, "id-7", EventUrl),
     Shape(<< <<"">>, <<"action_network", "abc-123">> >>, "", EventUrl),
     Shape(<<>>, "id-7", EventUrl),
     Shape(<<>>, "", EventUrl),
     Shape(<<>>, "", EventUrlSlash),
     Shape(<<>>, "", <<>>),
     Shape(<< <<>> >>, "", <<>>),
     Shape(<<>>, UnhashableId, <<>>)}

ShapedEvent(shape, st) ==
    [SourceEvent("e1", st, 1) EXCEPT !.identifiers = shape.identifiers,
                                     !.id = shape.id,
                                     !.browser_url = shape.browser_url]

ShapedEvents == {ShapedEvent(shape, st) : shape \in SourceShapes,
                                          st \in {"confirmed", "cancelled"}}

\* The event of the specification's example, identifiers ["action_network:abc-123"].
RegularEvent ==
    ShapedEvent(Shape(<< <<"action_network", "abc-123">> >>, "", <<>>), "confirmed")

\* Sequences of at most n regular events.
RECURSIVE RegularTails(_)
RegularTails(n) ==
    IF n = 0 THEN {<<>>} ELSE {<<>>} \cup {<<RegularEvent>> \o rest : rest \in RegularTails(n - 1)}

\* Batches of at most MaxBatch events: a shaped event followed by regular ones.
ShapedBatches ==
    {<<>>} \cup {<<e>> \o rest : e \in ShapedEvents, rest \in RegularTails(MaxBatch - 1)}

(***************************************************************************)
(* Identifier extraction (sync_events, app.py:541-567).                    *)
(***************************************************************************)
\* Mutant of FirstIdentifier: a string with a colon is preferred to a string
\* without one that precedes it.
FirstIdentifier_colon_first(identifiers) ==
    LET with_colon == {i \in 1..Len(identifiers) : Len(identifiers[i]) > 1}
        without    == {i \in 1..Len(identifiers) : Len(identifiers[i]) = 1}
    IN  IF with_colon # {}
        THEN LET i == CHOOSE j \in with_colon : \A k \in with_colon : j <= k
             IN  identifiers[i][Len(identifiers[i])]
        ELSE IF without # {}
        THEN LET i == CHOOSE j \in without : \A k \in without : j <= k
             IN  identifiers[i][1]
        ELSE ""

\* A string always has at least one segment; <<>> stands for a non-string entry.
RECURSIVE FirstIdentifier(_)
FirstIdentifier(identifiers) ==
    IF identifiers = <<>> THEN ""
    ELSE LET identifier == Head(identifiers) IN
         IF Len(identifier) > 1 THEN identifier[Len(identifier)]
         ELSE IF Len(identifier) = 1 THEN identifier[1]
         ELSE FirstIdentifier(Tail(identifiers))   \* not a string: skipped

ExtractId(an_event) ==
    LET from_identifiers == FirstIdentifier(an_event.identifiers) IN
    IF from_identifiers # "" THEN from_identifiers
    ELSE IF an_event.id # "" THEN an_event.id
    ELSE IF an_event.browser_url # <<>>
         THEN an_event.browser_url[Len(an_event.browser_url)]
         ELSE ""

\* app.py:577, 602: the membership test on the mapping table raises TypeError
\* when the extracted id is not hashable.
Raises(an_event) == ExtractId(an_event) = UnhashableId

\* Every id the extraction can yield for the events above.
AllIds == SourceIds \cup {ExtractId(e) : e \in ShapedEvents}

(***************************************************************************)
(* Routing resolver (get_google_calendar_id, app.py:84-107).               *)
(***************************************************************************)
Hashtags == <<"#dsa", "#action", "#education", "#outreach", "#social", "#steering", "#volunteer">>

CalendarOf(hashtag) == <<"calendar", hashtag>>

Lower(word) ==
    CASE word = "#Outreach" -> "#outreach"
      [] word = "#DSA" -> "#dsa"
      [] OTHER -> word

\* The hashtags that are substrings of a lower-cased word.
Within(word) ==
    CASE word = "#socialists" -> {"#social"}
      [] OTHER -> {word}

\* app.py:103: hashtag in description, a substring test.
HashtagIn(hashtag, description) ==
    \E i \in 1..Len(description) : hashtag \in Within(Lower(description[i]))

\* Mutant of get_google_calendar_id: the hashtag that comes first in the text
\* wins.
get_google_calendar_id_by_position(an_event) ==
    LET description == an_event.description
        tagged == {i \in 1..Len(description) :
                      \E j \in 1..Len(Hashtags) :
                          /\ Hashtags[j] \in Within(Lower(description[i]))
                          /\ Truthy(calendar_ids[Hashtags[j]])}
    IN  IF tagged # {}
        THEN LET first == CHOOSE i \in tagged : \A k \in tagged : i <= k
                 hashtag == CHOOSE h \in Within(Lower(description[first])) :
                                \E j \in 1..Len(Hashtags) : Hashtags[j] = h
             IN  [hashtag |-> hashtag, calendar_id |-> calendar_ids[hashtag]]
        ELSE [hashtag |-> "none (defaulted to DSA)", calendar_id |-> calendar_ids["#dsa"]]

get_google_calendar_id(an_event) ==
    LET matches == {i \in 1..Len(Hashtags) :
                        /\ HashtagIn(Hashtags[i], an_event.description)
                        /\ Truthy(calendar_ids[Hashtags[i]])}
    IN  IF matches # {}
        THEN LET first == CHOOSE i \in matches : \A j \in matches : i <= j
             IN  [hashtag |-> Hashtags[first], calendar_id |-> calendar_ids[Hashtags[first]]]
        ELSE [hashtag |-> "none (defaulted to DSA)", calendar_id |-> calendar_ids["#dsa"]]

(***************************************************************************)
(* Timestamp conversion (convert_to_utc, app.py:168-206).  A timestamp     *)
(* string is the record of its parts: whether datetime.fromisoformat can   *)
(* parse what stands before the zone, the date <<year, month, day>>,       *)
(* whether a time of day follows and after which separator, the hour, and  *)
(* the zone suffix.  Minutes and seconds pass through the conversion as    *)
(* they are, the offsets being whole hours, and are left out.              *)
(***************************************************************************)
TimeString(parseable, date, has_time, sep, hour, zone) ==
    [parseable |-> parseable, date |-> date, has_time |-> has_time, sep |-> sep,
     hour |-> hour, zone |-> zone]

Dates == {<<2025, 1, 15>>, <<2025, 3, 8>>, <<2025, 3, 9>>, <<2025, 7, 1>>,
          <<2025, 10, 31>>, <<2025, 11, 2>>, <<2025, 12, 31>>}

Zones == {"", "Z", "+00:00", "-05:00"}

\* Strings such as "2025-07-01T19:00:00Z", "2025-07-01 19:00:00", "2025-07-01",
\* "2025-07-01T19:00:00-05:00", and strings with a month 13 that do not parse.
TimeStrings ==
    {TimeString(TRUE, d, TRUE, sep, h, z) :
        d \in Dates, sep \in {"T", " "}, h \in 0..23, z \in Zones}
    \cup {TimeString(TRUE, d, FALSE, "", 0, z) : d \in Dates, z \in Zones}
    \cup {TimeString(FALSE, <<2025, 13, 1>>, TRUE, "T", 19, z) : z \in Zones}

DaysIn(year, month) ==
    CASE month \in {4, 6, 9, 11} -> 30
      [] month = 2 -> IF year % 4 = 0 /\ (year % 100 # 0 \/ year % 400 = 0) THEN 29 ELSE 28
      [] OTHER -> 31

NextDay(date) ==
    IF date[3] < DaysIn(date[1], date[2]) THEN <<date[1], date[2], date[3] + 1>>
    ELSE IF date[2] < 12 THEN <<date[1], date[2] + 1, 1>>
    ELSE <<date[1] + 1, 1, 1>>

\* The day of the week of a date of 2025, 0 for Sunday (1 January 2025 is a
\* Wednesday).
DayOfYear(date) ==
    LET RECURSIVE before(_)
        before(m) == IF m = 1 THEN 0 ELSE before(m - 1) + DaysIn(date[1], m - 1)
    IN  before(date[2]) + date[3]

Weekday(date) == (DayOfYear(date) + 2) % 7

\* The n-th Sunday of a month of 2025.
NthSunday(month, n) ==
    CHOOSE d \in 1..31 : /\ Weekday(<<2025, month, d>>) = 0
                          /\ (d - 1) \div 7 = n - 1

\* central.localize(dt) (app.py:181-182, 199-200): hours between the naive
\* Central time and UTC.  Daylight time runs from 02:00 on the second Sunday of
\* March to 02:00 on the first Sunday of November; localize takes the hour
\* that does not exist in March and the hour that occurs twice in November as
\* standard time (is_dst=False).
central_utc_offset(date, hour) ==
    LET start == NthSunday(3, 2)
        end   == NthSunday(11, 1)
        after_start == \/ date[2] > 3
                       \/ date[2] = 3 /\ date[3] > start
                       \/ date[2] = 3 /\ date[3] = start /\ hour >= 3
        before_end  == \/ date[2] < 11
                       \/ date[2] = 11 /\ date[3] < end
                       \/ date[2] = 11 /\ date[3] = end /\ hour < 1
    IN  IF after_start /\ before_end THEN 5 ELSE 6

\* dt_central.astimezone(pytz.UTC).isoformat().replace('+00:00', 'Z')
\* (app.py:185-188, 201-202).
central_to_utc(t) ==
    LET hour == IF t.has_time THEN t.hour ELSE 0
        shifted == hour + central_utc_offset(t.date, hour)
    IN  IF shifted < 24
        THEN TimeString(TRUE, t.date, TRUE, "T", shifted, "Z")
        ELSE TimeString(TRUE, NextDay(t.date), TRUE, "T", shifted - 24, "Z")

\* app.py:193: '+' in time_str or '-' in time_str.split('T')[-1].  Without a
\* 'T' the last part is the whole string, and the date has its dashes.
looks_zoned(t) ==
    \/ t.zone = "+00:00"
    \/ IF t.has_time /\ t.sep = "T" THEN t.zone = "-05:00" ELSE TRUE

\* Mutant of convert_to_utc: a Z suffix is taken for true UTC.
convert_to_utc_trusting_z(t) ==
    IF t = None THEN None
    ELSE IF t.zone = "Z" THEN t
    ELSE IF looks_zoned(t) THEN t
    ELSE IF ~t.parseable THEN t
    ELSE central_to_utc(t)

\* app.py:168-206
convert_to_utc(t) ==
    IF t = None THEN None
    ELSE IF t.zone = "Z"
         THEN (IF ~t.parseable THEN t ELSE central_to_utc(t))
    ELSE IF looks_zoned(t) THEN t
    ELSE IF ~t.parseable THEN t
    ELSE central_to_utc(t)

(***************************************************************************)
(* The end time of an event that has a start and no end (app.py:211-218).  *)
(***************************************************************************)
\* app.py:214: datetime.fromisoformat(start_date.replace('Z', '+00:00')): None
\* where it raises.  A date with nothing but an offset after it, such as
\* "2025-07-01-05:00", is read as the date, a separator and the time of day
\* 05:00, with no zone.
fromisoformat(t) ==
    IF ~t.parseable THEN None
    ELSE IF t.has_time
         THEN [date |-> t.date, hour |-> t.hour,
               zone |-> IF t.zone = "Z" THEN "+00:00" ELSE t.zone]
    ELSE [date |-> t.date, hour |-> IF t.zone = "-05:00" THEN 5 ELSE 0, zone |-> ""]

\* The end taken on the day of the start, whatever the hour.
assumed_end_same_day(start_date) ==
    LET start_dt == fromisoformat(start_date)
    IN  IF start_dt = None THEN start_date
        ELSE TimeString(TRUE, start_dt.date, TRUE, "T", (start_dt.hour + 2) % 24,
                        IF start_dt.zone = "+00:00" THEN "Z" ELSE start_dt.zone)

\* app.py:213-218: start_dt + timedelta(hours=2), written with isoformat() and
\* '+00:00' replaced by 'Z'; the start itself if it cannot be parsed.
assumed_end(start_date) ==
    LET start_dt == fromisoformat(start_date)
    IN  IF start_dt = None THEN start_date
        ELSE LET hour == start_dt.hour + 2
             IN  TimeString(TRUE,
                            IF hour < 24 THEN start_dt.date ELSE NextDay(start_dt.date),
                            TRUE, "T", hour % 24,
                            IF start_dt.zone = "+00:00" THEN "Z" ELSE start_dt.zone)

(***************************************************************************)
(* Field normaliser (transform_to_google_event, app.py:135-266).           *)
(***************************************************************************)
transform_to_google_event(an_event) ==
    IF ~an_event.location.wellformed THEN None
    ELSE [summary     |-> an_event.title,
          description |-> IF an_event.browser_url # <<>>
                          THEN an_event.description \o <<"Register:", an_event.browser_url>>
                          ELSE an_event.description,
          location    |-> an_event.location.parts]

(***************************************************************************)
(* Platform adapters.  Each returns what the Python method returns plus    *)
(* the platform calls it issued.  A call record names the operation, the   *)
(* platform, the source id it was issued for, the destination id it        *)
(* carries or obtains, and whether the platform answered with success.     *)
(* api_ok is the platform's answer: the adapter's try/except turns a       *)
(* non-success status or a raised error into None / False.                 *)
(***************************************************************************)
Platforms == {"google", "discord"}

Call(op, platform, event_id, dest, ok) ==
    [op |-> op, platform |-> platform, event_id |-> event_id, dest |-> dest, ok |-> ok]

\* A call to Google Calendar names the calendar (calendarId, app.py:290, 331, 352).
InCalendar(call, calendar_id) == call @@ [calendar_id |-> calendar_id]

\* The id the platform assigns to the destination event it creates: a new one,
\* different from the ids of the destination events it holds for the source event.
NewDestinationId(platform, event_id) ==
    <<platform, event_id, platform_events[<<platform, event_id>>].live>>

NoGoogleEvent == [google_event_id |-> None, calendar_id |-> None, calls |-> <<>>]

create_google_event(an_event, event_id, api_ok) ==
    IF ~google_service THEN NoGoogleEvent
    ELSE LET calendar_id == get_google_calendar_id(an_event).calendar_id IN
         IF ~Truthy(calendar_id) THEN NoGoogleEvent
         ELSE IF transform_to_google_event(an_event) = None THEN NoGoogleEvent
         ELSE LET new_id == NewDestinationId("google", event_id) IN
              IF api_ok
              THEN [google_event_id |-> new_id, calendar_id |-> calendar_id,
                    calls |-> <<InCalendar(Call("create", "google", event_id, new_id, TRUE),
                                          calendar_id)>>]
              ELSE [google_event_id |-> None, calendar_id |-> None,
                    calls |-> <<InCalendar(Call("create", "google", event_id, None, FALSE),
                                          calendar_id)>>]

\* An update sent to the calendar the description routes the event to now.
update_google_event_rerouted(google_event_id, calendar_id, an_event, event_id, api_ok) ==
    IF ~google_service THEN [value |-> None, calls |-> <<>>]
    ELSE IF transform_to_google_event(an_event) = None THEN [value |-> None, calls |-> <<>>]
    ELSE [value |-> IF api_ok THEN google_event_id ELSE None,
          calls |-> <<InCalendar(Call("update", "google", event_id, google_event_id, api_ok),
                                 get_google_calendar_id(an_event).calendar_id)>>]

update_google_event(google_event_id, calendar_id, an_event, event_id, api_ok) ==
    IF ~google_service THEN [value |-> None, calls |-> <<>>]
    ELSE IF transform_to_google_event(an_event) = None THEN [value |-> None, calls |-> <<>>]
    ELSE [value |-> IF api_ok THEN google_event_id ELSE None,
          calls |-> <<InCalendar(Call("update", "google", event_id, google_event_id, api_ok),
                                 calendar_id)>>]

delete_google_event(google_event_id, calendar_id, event_id, api_ok) ==
    IF ~google_service THEN [value |-> FALSE, calls |-> <<>>]
    ELSE [value |-> api_ok,
          calls |-> <<InCalendar(Call("delete", "google", event_id, google_event_id, api_ok),
                                 calendar_id)>>]

create_discord_event_direct(an_event, google_event_data, event_id, api_ok) ==
    IF ~discord_configured THEN [value |-> None, calls |-> <<>>]
    ELSE LET new_id == NewDestinationId("discord", event_id) IN
         [value |-> IF api_ok THEN new_id ELSE None,
          calls |-> <<Call("create", "discord", event_id,
                           IF api_ok THEN new_id ELSE None, api_ok)>>]

update_discord_event_direct(discord_event_id, an_event, google_event_data, event_id, api_ok) ==
    IF ~discord_configured THEN [value |-> None, calls |-> <<>>]
    ELSE [value |-> IF api_ok THEN discord_event_id ELSE None,
          calls |-> <<Call("update", "discord", event_id, discord_event_id, api_ok)>>]

\* Mutant of delete_discord_event_direct: the configuration is not looked at.
delete_discord_event_direct_unguarded(discord_event_id, event_id, api_ok) ==
    [value |-> api_ok,
     calls |-> <<Call("delete", "discord", event_id, discord_event_id, api_ok)>>]

delete_discord_event_direct(discord_event_id, event_id, api_ok) ==
    IF ~discord_configured THEN [value |-> FALSE, calls |-> <<>>]
    ELSE [value |-> api_ok,
          calls |-> <<Call("delete", "discord", event_id, discord_event_id, api_ok)>>]

(***************************************************************************)
(* Reconciliation engine: one iteration of the loop of sync_events         *)
(* (app.py:540-690).  Each path returns the mapping table it leaves, the   *)
(* calls it issued and what it adds to the three counters.  g_ok and d_ok  *)
(* are the answers Google Calendar and Discord give if they are called.    *)
(***************************************************************************)
Outcome(mappings, issued, new, updated, deleted) ==
    [mappings |-> mappings, calls |-> issued, new |-> new, updated |-> updated,
     deleted |-> deleted]

Remove(mappings, event_id) ==
    [k \in DOMAIN mappings \ {event_id} |-> mappings[k]]

Put(mappings, event_id, row) ==
    [k \in DOMAIN mappings \cup {event_id} |-> IF k = event_id THEN row ELSE mappings[k]]

\* Mutant of mapping_after_cancel: the row is kept for a retry unless every
\* delete that was tried succeeded.
mapping_after_cancel_if_deleted(mappings, event_id, discord_deleted, google_deleted) ==
    IF (Truthy(mappings[event_id].discord_id) => discord_deleted) /\ google_deleted
    THEN Remove(mappings, event_id)
    ELSE mappings

\* app.py:594: the row is dropped whatever the two deletes returned.
mapping_after_cancel(mappings, event_id, discord_deleted, google_deleted) ==
    Remove(mappings, event_id)

\* Mutant of cancelled_path: the Google Calendar delete is tried only after the
\* Discord delete succeeded.
cancelled_path_stop_on_failure(event_id, mappings, g_ok, d_ok) ==
    IF event_id \in DOMAIN mappings
    THEN LET stored_info == mappings[event_id]
             d == IF Truthy(stored_info.discord_id)
                  THEN delete_discord_event_direct(stored_info.discord_id, event_id, d_ok)
                  ELSE [value |-> TRUE, calls |-> <<>>]
             g == IF d.value /\ Truthy(stored_info.google_id)
                               /\ Truthy(stored_info.google_calendar_id)
                  THEN delete_google_event(stored_info.google_id,
                                           stored_info.google_calendar_id, event_id, g_ok)
                  ELSE [value |-> FALSE, calls |-> <<>>]
         IN  Outcome(Remove(mappings, event_id), d.calls \o g.calls, 0, 0,
                     (IF Truthy(stored_info.discord_id) THEN 1 ELSE 0)
                     + (IF g.value THEN 1 ELSE 0))
    ELSE Outcome(mappings, <<>>, 0, 0, 0)

\* app.py:577-599: the event is cancelled.
cancelled_path(event_id, mappings, g_ok, d_ok) ==
    IF event_id \in DOMAIN mappings
    THEN LET stored_info == mappings[event_id]
             discord_event_id == stored_info.discord_id
             google_event_id == stored_info.google_id
             google_calendar_id == stored_info.google_calendar_id
             d == IF Truthy(discord_event_id)
                  THEN delete_discord_event_direct(discord_event_id, event_id, d_ok)
                  ELSE [value |-> FALSE, calls |-> <<>>]
             g == IF Truthy(google_event_id) /\ Truthy(google_calendar_id)
                  THEN delete_google_event(google_event_id, google_calendar_id, event_id, g_ok)
                  ELSE [value |-> FALSE, calls |-> <<>>]
         IN  Outcome(mapping_after_cancel(mappings, event_id, d.value, g.value),
                     d.calls \o g.calls, 0, 0,
                     (IF Truthy(discord_event_id) THEN 1 ELSE 0)
                     + (IF g.value THEN 1 ELSE 0))
    ELSE Outcome(mappings, <<>>, 0, 0, 0)

\* Mutant of create_recorded: the row is recorded only when both creates
\* returned an id.
create_recorded_both(google_event_id, discord_event_id) ==
    Truthy(google_event_id) /\ Truthy(discord_event_id)

\* app.py:606: the row is recorded when the Google Calendar create returned an id.
create_recorded(google_event_id, discord_event_id) == Truthy(google_event_id)

\* Mutant of mapping_after_create: the row is written only if the id still has
\* none.
mapping_after_create_if_absent(mappings, event_id, row) ==
    IF event_id \in DOMAIN mappings THEN mappings ELSE Put(mappings, event_id, row)

\* app.py:613-621: the row is written over whatever the table holds for the id.
mapping_after_create(mappings, event_id, row) == Put(mappings, event_id, row)

\* app.py:603-635: the event has no mapping row.
\* The creates made independently of each other, the row recorded when either
\* returned an id.
create_path_either(an_event, event_id, mappings, g_ok, d_ok) ==
    LET g == create_google_event(an_event, event_id, g_ok)
        google_event_data == transform_to_google_event(an_event)
        d == IF google_event_data # None
             THEN create_discord_event_direct(an_event, google_event_data, event_id, d_ok)
             ELSE [value |-> None, calls |-> <<>>]
    IN  IF Truthy(g.google_event_id) \/ Truthy(d.value)
        THEN Outcome(mapping_after_create(mappings, event_id,
                         [discord_id         |-> d.value,
                          google_id          |-> g.google_event_id,
                          google_calendar_id |-> g.calendar_id,
                          last_modified      |-> an_event.modified_date,
                          status             |-> an_event.status,
                          title              |-> an_event.title,
                          action_network_url |-> an_event.browser_url]),
                     g.calls \o d.calls, 1, 0, 0)
        ELSE Outcome(mappings, g.calls \o d.calls, 0, 0, 0)

\* app.py:602-635: the event has no mapping row.
create_path(an_event, event_id, mappings, g_ok, d_ok) ==
    LET g == create_google_event(an_event, event_id, g_ok) IN
    IF Truthy(g.google_event_id)
    THEN LET google_event_data == transform_to_google_event(an_event)
             d == create_discord_event_direct(an_event, google_event_data, event_id, d_ok)
         IN  IF create_recorded(g.google_event_id, d.value)
             THEN Outcome(mapping_after_create(mappings, event_id,
                              [discord_id         |-> d.value,
                               google_id          |-> g.google_event_id,
                               google_calendar_id |-> g.calendar_id,
                               last_modified      |-> an_event.modified_date,
                               status             |-> an_event.status,
                               title              |-> an_event.title,
                               action_network_url |-> an_event.browser_url]),
                          g.calls \o d.calls, 1, 0, 0)
             ELSE Outcome(mappings, g.calls \o d.calls, 0, 0, 0)
    ELSE Outcome(mappings, g.calls, 0, 0, 0)

\* Mutant of needs_update: the stored date is read under a key the row does not
\* have, so the default '' always differs from the fetched date.
needs_update_wrong_key(modified_date, status, stored_info) ==
    \/ modified_date \in ModifiedDates
    \/ status # stored_info.status

\* Mutant of needs_update: the status comparison is left out.
needs_update_modified_only(modified_date, status, stored_info) ==
    modified_date # stored_info.last_modified

\* app.py:642-651
needs_update(modified_date, status, stored_info) ==
    \/ modified_date # stored_info.last_modified
    \/ status # stored_info.status

\* The metadata rewritten only when both platforms were updated.
update_recorded_every(updated_platforms) == updated_platforms = {"Google Calendar", "Discord"}

\* Mutant of update_recorded: the metadata is rewritten after every attempt.
update_recorded_always(updated_platforms) == TRUE

\* app.py:680: the row's metadata is rewritten when some platform was updated.
update_recorded(updated_platforms) == updated_platforms # {}

\* app.py:638-690: the event has a mapping row.
update_path(an_event, event_id, mappings, g_ok, d_ok) ==
    LET stored_info == mappings[event_id] IN
    IF needs_update(an_event.modified_date, an_event.status, stored_info)
    THEN LET google_event_data == transform_to_google_event(an_event) IN
         IF google_event_data # None
         THEN LET g == IF Truthy(stored_info.google_id) /\ Truthy(stored_info.google_calendar_id)
                       THEN update_google_event(stored_info.google_id,
                                                stored_info.google_calendar_id,
                                                an_event, event_id, g_ok)
                       ELSE [value |-> None, calls |-> <<>>]
                  d == IF Truthy(stored_info.discord_id)
                       THEN update_discord_event_direct(stored_info.discord_id, an_event,
                                                        google_event_data, event_id, d_ok)
                       ELSE [value |-> None, calls |-> <<>>]
                  updated_platforms ==
                      (IF Truthy(g.value) THEN {"Google Calendar"} ELSE {})
                      \cup (IF Truthy(d.value) THEN {"Discord"} ELSE {})
              IN  IF update_recorded(updated_platforms)
                  THEN Outcome([mappings EXCEPT
                                    ![event_id].last_modified = an_event.modified_date,
                                    ![event_id].status = an_event.status,
                                    ![event_id].title = an_event.title],
                               g.calls \o d.calls, 0, 1, 0)
                  ELSE Outcome(mappings, g.calls \o d.calls, 0, 0, 0)
         ELSE Outcome(mappings, <<>>, 0, 0, 0)
    ELSE Outcome(mappings, <<>>, 0, 0, 0)

\* Mutant of is_new: an event whose row lacks the Discord id is created again.
is_new_or_missing_platform(event_id, mappings) ==
    \/ event_id \notin DOMAIN mappings
    \/ ~Truthy(mappings[event_id].discord_id)

\* app.py:602: the event is new when its id is not a key of the mapping table.
is_new(event_id, mappings) == event_id \notin DOMAIN mappings

\* Mutant of process_event: the mapping lookup comes before the cancelled check.
process_event_new_first(an_event, mappings, g_ok, d_ok) ==
    LET event_id == ExtractId(an_event) IN
    IF event_id = "" THEN Outcome(mappings, <<>>, 0, 0, 0)
    ELSE IF event_id \notin DOMAIN mappings
         THEN create_path(an_event, event_id, mappings, g_ok, d_ok)
    ELSE IF an_event.status = "cancelled"
         THEN cancelled_path(event_id, mappings, g_ok, d_ok)
    ELSE update_path(an_event, event_id, mappings, g_ok, d_ok)

\* Mutant of process_event: an event without an id is not skipped.
process_event_no_skip(an_event, mappings, g_ok, d_ok) ==
    LET event_id == ExtractId(an_event) IN
    IF an_event.status = "cancelled"
    THEN cancelled_path(event_id, mappings, g_ok, d_ok)
    ELSE IF is_new(event_id, mappings)
         THEN create_path(an_event, event_id, mappings, g_ok, d_ok)
    ELSE update_path(an_event, event_id, mappings, g_ok, d_ok)

\* app.py:540-690: one iteration of the loop.
process_event(an_event, mappings, g_ok, d_ok) ==
    LET event_id == ExtractId(an_event) IN
    IF event_id = "" THEN Outcome(mappings, <<>>, 0, 0, 0)
    ELSE IF an_event.status = "cancelled"
         THEN cancelled_path(event_id, mappings, g_ok, d_ok)
    ELSE IF is_new(event_id, mappings)
         THEN create_path(an_event, event_id, mappings, g_ok, d_ok)
    ELSE update_path(an_event, event_id, mappings, g_ok, d_ok)

(***************************************************************************)
(* The configuration, read once when the process starts.                   *)
(***************************************************************************)
AllCalendars == [h \in {Hashtags[i] : i \in 1..Len(Hashtags)} |-> CalendarOf(h)]

NoCalendars == [h \in {Hashtags[i] : i \in 1..Len(Hashtags)} |-> None]

CalendarConfigs == {AllCalendars, NoCalendars}

NoPrev == [s \in SourceIds |-> None]

\* The platforms hold no destination event of the service.
NoPlatformEvents ==
    [k \in Platforms \X AllIds |-> [live |-> 0, delete_failed |-> 0]]

\* No /sync request is being served.
NoManualPass ==
    [pc |-> "idle", an_events |-> <<>>, idx |-> 0, pending |-> None,
     new_events_count |-> 0, updated_events_count |-> 0, deleted_events_count |-> 0]

\* What only some of the specifications below drive.
outside == <<manual, time_str, utc_time, end_date, delivery, answers, pending>>

ReadConfiguration ==
    /\ google_service \in BOOLEAN
    /\ discord_configured \in BOOLEAN
    /\ calendar_ids \in CalendarConfigs

Init ==
    /\ ReadConfiguration
    /\ event_mappings = <<>>
    /\ pc = "idle"
    /\ an_events = <<>>
    /\ idx = 0
    /\ new_events_count = 0
    /\ updated_events_count = 0
    /\ deleted_events_count = 0
    /\ result = None
    /\ calls = <<>>
    /\ prev = NoPrev
    /\ platform_events = NoPlatformEvents
    /\ manual = NoManualPass
    /\ time_str = None
    /\ utc_time = None
    /\ end_date = None
    /\ delivery = None
    /\ answers = None
    /\ pending = None

(***************************************************************************)
(* A sync pass: sync_events (app.py:525-701), started by the timer of      *)
(* background_sync (app.py:743-753) or by /sync (app.py:857-864).          *)
(***************************************************************************)
\* app.py:530-537: fetch the batch and zero the counters.
Fetch(batches) ==
    /\ pc = "idle"
    /\ \E batch \in batches : an_events' = batch
    /\ idx' = 0
    /\ new_events_count' = 0
    /\ updated_events_count' = 0
    /\ deleted_events_count' = 0
    /\ calls' = <<>>
    /\ pc' = "loop"
    /\ UNCHANGED <<config, event_mappings, result, prev, platform_events, outside>>

StartPass == Fetch(Batches)

\* The number of calls of a kind among the calls issued.
Count(cs, op, platform, event_id, ok) ==
    Cardinality({i \in 1..Len(cs) : /\ cs[i].op = op
                                    /\ cs[i].platform = platform
                                    /\ cs[i].event_id = event_id
                                    /\ cs[i].ok = ok})

\* What the platforms hold after answering the calls: a successful create
\* (app.py:289-294, 418-422) adds a destination event, a successful delete
\* (app.py:351-357, 512-516) removes one, a failed delete leaves it.
platform_after(held, cs) ==
    [k \in DOMAIN held |->
        [live |-> held[k].live + Count(cs, "create", k[1], k[2], TRUE)
                               - Count(cs, "delete", k[1], k[2], TRUE),
         delete_failed |-> held[k].delete_failed + Count(cs, "delete", k[1], k[2], FALSE)]]

\* A platform deletes only what it holds, and holds at most MaxLive events of a
\* source event.
WithinBounds(held) ==
    \A k \in DOMAIN held : /\ held[k].live >= 0
                           /\ held[k].live <= MaxLive
                           /\ held[k].delete_failed <= MaxLive

\* A loop that handles an event again when one of its platform calls failed.
Process_retrying(tracked) ==
    /\ pc = "loop"
    /\ idx < Len(an_events)
    /\ ~Raises(an_events[idx + 1])
    /\ \E g_ok \in BOOLEAN, d_ok \in BOOLEAN :
          LET out == process_event(an_events[idx + 1], event_mappings, g_ok, d_ok)
              held == platform_after(platform_events, out.calls)
              failed == \E i \in 1..Len(out.calls) : ~out.calls[i].ok
          IN  /\ event_mappings' = out.mappings
              /\ calls' = out.calls
              /\ new_events_count' = new_events_count + out.new
              /\ updated_events_count' = updated_events_count + out.updated
              /\ deleted_events_count' = deleted_events_count + out.deleted
              /\ IF tracked
                 THEN WithinBounds(held) /\ platform_events' = held
                 ELSE UNCHANGED platform_events
              /\ idx' = IF failed THEN idx ELSE idx + 1
    /\ UNCHANGED <<config, pc, an_events, result, prev, outside>>

\* app.py:540-690: process the next event of the batch.  tracked says whether
\* the specification follows what the platforms hold.
Process(tracked) ==
    /\ pc = "loop"
    /\ idx < Len(an_events)
    /\ ~Raises(an_events[idx + 1])
    /\ \E g_ok \in BOOLEAN, d_ok \in BOOLEAN :
          LET out == process_event(an_events[idx + 1], event_mappings, g_ok, d_ok)
              held == platform_after(platform_events, out.calls)
          IN  /\ event_mappings' = out.mappings
              /\ calls' = out.calls
              /\ new_events_count' = new_events_count + out.new
              /\ updated_events_count' = updated_events_count + out.updated
              /\ deleted_events_count' = deleted_events_count + out.deleted
              /\ IF tracked
                 THEN WithinBounds(held) /\ platform_events' = held
                 ELSE UNCHANGED platform_events
    /\ idx' = idx + 1
    /\ UNCHANGED <<config, pc, an_events, result, prev, outside>>

ProcessEvent == Process(FALSE)

\* A pass that ends by dropping the rows of the events it did not fetch.
Finish_pruning ==
    /\ pc = "loop"
    /\ idx = Len(an_events)
    /\ result' = [new_events     |-> new_events_count,
                  updated_events |-> updated_events_count,
                  deleted_events |-> deleted_events_count]
    /\ event_mappings' =
          [s \in {k \in DOMAIN event_mappings :
                     \E i \in 1..Len(an_events) : ExtractId(an_events[i]) = k}
             |-> event_mappings[s]]
    /\ an_events' = <<>>
    /\ idx' = 0
    /\ new_events_count' = 0
    /\ updated_events_count' = 0
    /\ deleted_events_count' = 0
    /\ calls' = <<>>
    /\ pc' = "returned"
    /\ UNCHANGED <<config, platform_events, outside>>

\* app.py:692-697: the loop is over; the summary is returned and the locals of
\* the pass are gone.
Finish ==
    /\ pc = "loop"
    /\ idx = Len(an_events)
    /\ result' = [new_events     |-> new_events_count,
                  updated_events |-> updated_events_count,
                  deleted_events |-> deleted_events_count]
    /\ an_events' = <<>>
    /\ idx' = 0
    /\ new_events_count' = 0
    /\ updated_events_count' = 0
    /\ deleted_events_count' = 0
    /\ calls' = <<>>
    /\ pc' = "returned"
    /\ UNCHANGED <<config, event_mappings, platform_events, outside>>

EndPass == Finish /\ UNCHANGED prev

\* A loop that goes on only after a pass that returned a summary.
Return_unless_error ==
    /\ pc = "returned"
    /\ "error" \notin DOMAIN result
    /\ pc' = "idle"
    /\ result' = None
    /\ UNCHANGED <<config, event_mappings, an_events, idx, new_events_count,
                   updated_events_count, deleted_events_count, calls, prev,
                   platform_events, outside>>

\* app.py:747-751 and app.py:864-884: the caller takes the summary and the
\* service waits for the next trigger.
Return ==
    /\ pc = "returned"
    /\ pc' = "idle"
    /\ result' = None
    /\ UNCHANGED <<config, event_mappings, an_events, idx, new_events_count,
                   updated_events_count, deleted_events_count, calls, prev,
                   platform_events, outside>>

Next == StartPass \/ ProcessEvent \/ EndPass \/ Return

\* Any sequence of non-overlapping sync passes over a source of two events.
Spec == Init /\ [][Next]_vars

(***************************************************************************)
(* The same passes over a source that holds one event, with the history    *)
(* variable prev recording what the previous pass fetched for it.          *)
(***************************************************************************)
\* What a pass fetched for each source id: its status and modified_date.
Fetched(batch) ==
    [s \in SourceIds |->
        IF \E i \in 1..Len(batch) : ExtractId(batch[i]) = s
        THEN LET i == CHOOSE j \in 1..Len(batch) : ExtractId(batch[j]) = s
             IN  [status |-> batch[i].status, modified_date |-> batch[i].modified_date]
        ELSE None]

StartPassSingle == Fetch(SingleEventBatches)

EndPassRecorded == Finish /\ prev' = Fetched(an_events)

NextRecorded == StartPassSingle \/ ProcessEvent \/ EndPassRecorded \/ Return

SpecRecorded == Init /\ [][NextRecorded]_vars

(***************************************************************************)
(* The same passes over a source that holds one event, following what the  *)
(* platforms hold: platform_events counts, per platform and source id, the *)
(* destination events created and not deleted, and the delete calls that   *)
(* failed.                                                                 *)
(***************************************************************************)
ProcessEventTracked == Process(TRUE)

NextLive == StartPassSingle \/ ProcessEventTracked \/ EndPass \/ Return

SpecLive == Init /\ [][NextLive]_vars

(***************************************************************************)
(* The same, with /clear-mappings requests between the passes.  The state  *)
(* after a restart of the process is Init, where the table is empty too.   *)
(***************************************************************************)
\* app.py:1018-1033: the table is emptied; the platforms keep what they hold.
clear_mappings ==
    /\ pc = "idle"
    /\ event_mappings # <<>>
    /\ event_mappings' = <<>>
    /\ UNCHANGED <<config, pc, an_events, idx, new_events_count, updated_events_count,
                   deleted_events_count, result, calls, prev, platform_events, outside>>

NextReset == StartPassSingle \/ ProcessEventTracked \/ EndPass \/ Return \/ clear_mappings

SpecReset == Init /\ [][NextReset]_vars

(***************************************************************************)
(* Passes over a source whose events carry identifier fields of every      *)
(* shape, among them an id that makes the mapping lookup raise.            *)
(***************************************************************************)
StartPassShaped == Fetch(ShapedBatches)

\* app.py:699-701: an exception raised in the loop outside the adapters leaves
\* the loop; sync_events returns the error and the rest of the batch is not
\* processed.
Abort ==
    /\ pc = "loop"
    /\ idx < Len(an_events)
    /\ Raises(an_events[idx + 1])
    /\ result' = [error |-> "unhashable type: 'dict'"]
    /\ an_events' = <<>>
    /\ idx' = 0
    /\ new_events_count' = 0
    /\ updated_events_count' = 0
    /\ deleted_events_count' = 0
    /\ calls' = <<>>
    /\ pc' = "returned"
    /\ UNCHANGED <<config, event_mappings, prev, platform_events, outside>>

NextSource == StartPassShaped \/ ProcessEvent \/ Abort \/ EndPass \/ Return

SpecSource == Init /\ [][NextSource]_vars

(***************************************************************************)
(* Passes over a source whose one event shows descriptions with hashtags   *)
(* in several positions, on a service with Google Calendar initialised and *)
(* all, one or none of the calendar ids set.                               *)
(***************************************************************************)
\* Only GOOGLE_DSA_CALENDAR_ID is set.
OnlyDsaCalendar ==
    [h \in {Hashtags[i] : i \in 1..Len(Hashtags)} |->
        IF h = "#dsa" THEN CalendarOf(h) ELSE None]

RoutingConfigs == {AllCalendars, OnlyDsaCalendar, NoCalendars}

Descriptions ==
    {<<"Join", "us", "#outreach", "for", "canvassing">>,
     <<"#social", "then", "#action">>,
     <<"#Outreach", "with", "#DSA">>,
     <<"Fellow", "#socialists", "meet">>,
     <<"#volunteer">>,
     <<"Monthly", "meeting">>,
     <<>>}

RoutedEvent(description, st) ==
    [SourceEvent("e1", st, 1) EXCEPT !.description = description]

RoutedBatches ==
    {<<>>} \cup {<<RoutedEvent(d, st)>> : d \in Descriptions,
                                          st \in {"confirmed", "cancelled"}}

InitRouting ==
    /\ google_service = TRUE
    /\ discord_configured \in BOOLEAN
    /\ calendar_ids \in RoutingConfigs
    /\ event_mappings = <<>>
    /\ pc = "idle"
    /\ an_events = <<>>
    /\ idx = 0
    /\ new_events_count = 0
    /\ updated_events_count = 0
    /\ deleted_events_count = 0
    /\ result = None
    /\ calls = <<>>
    /\ prev = NoPrev
    /\ platform_events = NoPlatformEvents
    /\ manual = NoManualPass
    /\ time_str = None
    /\ utc_time = None
    /\ end_date = None
    /\ delivery = None
    /\ answers = None
    /\ pending = None

StartPassRouted == Fetch(RoutedBatches)

NextRouting == StartPassRouted \/ ProcessEvent \/ EndPass \/ Return

SpecRouting == InitRouting /\ [][NextRouting]_vars

(***************************************************************************)
(* The timestamp conversion applied to one timestamp after the other, as   *)
(* transform_to_google_event does for the start and the end of every event *)
(* (app.py:208-209).                                                       *)
(***************************************************************************)
InitTime ==
    /\ google_service = TRUE
    /\ discord_configured = TRUE
    /\ calendar_ids = AllCalendars
    /\ event_mappings = <<>>
    /\ pc = "idle"
    /\ an_events = <<>>
    /\ idx = 0
    /\ new_events_count = 0
    /\ updated_events_count = 0
    /\ deleted_events_count = 0
    /\ result = None
    /\ calls = <<>>
    /\ prev = NoPrev
    /\ platform_events = NoPlatformEvents
    /\ manual = NoManualPass
    /\ time_str \in TimeStrings
    /\ utc_time = None
    /\ end_date = None
    /\ delivery = None
    /\ answers = None
    /\ pending = None

sequential == <<config, event_mappings, pc, an_events, idx, new_events_count,
                updated_events_count, deleted_events_count, result, calls, prev,
                platform_events, manual, delivery, answers, pending>>

\* app.py:208-209: convert_to_utc returns.
Convert ==
    /\ utc_time = None
    /\ utc_time' = convert_to_utc(time_str)
    /\ UNCHANGED <<sequential, time_str, end_date>>

\* app.py:208-209: convert_to_utc is called with the next timestamp.
NextTimestamp ==
    /\ utc_time # None
    /\ time_str' \in TimeStrings
    /\ utc_time' = None
    /\ end_date' = None
    /\ UNCHANGED sequential

\* app.py:211-218: the timestamp is the start of an event that has no end.
AssumeEnd ==
    /\ utc_time # None
    /\ end_date = None
    /\ end_date' = assumed_end(utc_time)
    /\ UNCHANGED <<sequential, time_str, utc_time>>

NextTime == Convert \/ AssumeEnd \/ NextTimestamp

SpecTime == InitTime /\ [][NextTime]_vars

(***************************************************************************)
(* Two passes at once: the timer's pass (background_sync, app.py:743-753)  *)
(* and the pass of a /sync request (manual_sync, app.py:857-864) run in    *)
(* two threads over the one table event_mappings, with no lock.  A thread  *)
(* can be switched out at every platform call, so on the create path the   *)
(* membership test (app.py:602) and the write of the row (app.py:613) are  *)
(* two steps with the create calls between them.  The request's pass takes *)
(* these two steps; the timer's pass is followed an iteration at a time,   *)
(* which leaves out interleavings but adds none.                           *)
(***************************************************************************)
ConcurrentBatches ==
    {<<>>} \cup {<<SourceEvent("e1", st, 1)>> : st \in {"confirmed", "cancelled"}}

StartPassConcurrent == Fetch(ConcurrentBatches)

\* app.py:864, 530-537: the request's pass fetches its batch.
ManualStart ==
    /\ manual.pc = "idle"
    /\ \E batch \in ConcurrentBatches :
          manual' = [NoManualPass EXCEPT !.pc = "loop", !.an_events = batch]
    /\ calls' = <<>>
    /\ UNCHANGED <<config, event_mappings, pc, an_events, idx, new_events_count,
                   updated_events_count, deleted_events_count, result, prev,
                   platform_events, time_str, utc_time, end_date, delivery, answers,
                   pending>>

\* app.py:540-611 and 637-690: the request's pass processes its next event, up
\* to the write of the row if it creates the event.
ManualProcess ==
    /\ manual.pc = "loop"
    /\ manual.idx < Len(manual.an_events)
    /\ ~Raises(manual.an_events[manual.idx + 1])
    /\ \E g_ok \in BOOLEAN, d_ok \in BOOLEAN :
          LET an_event == manual.an_events[manual.idx + 1]
              event_id == ExtractId(an_event)
              out == process_event(an_event, event_mappings, g_ok, d_ok)
              held == platform_after(platform_events, out.calls)
          IN  /\ WithinBounds(held)
              /\ platform_events' = held
              /\ calls' = out.calls
              /\ IF out.new = 1
                 THEN /\ manual' = [manual EXCEPT
                                       !.pc = "recording",
                                       !.pending = [event_id |-> event_id,
                                                    row |-> out.mappings[event_id]]]
                      /\ UNCHANGED event_mappings
                 ELSE /\ manual' = [manual EXCEPT
                                       !.idx = @ + 1,
                                       !.updated_events_count = @ + out.updated,
                                       !.deleted_events_count = @ + out.deleted]
                      /\ event_mappings' = out.mappings
    /\ UNCHANGED <<config, pc, an_events, idx, new_events_count, updated_events_count,
                   deleted_events_count, result, prev, time_str, utc_time, end_date,
                   delivery, answers, pending>>

\* app.py:613-622: the request's pass writes the row of the event it created.
ManualRecord ==
    /\ manual.pc = "recording"
    /\ event_mappings' = mapping_after_create(event_mappings, manual.pending.event_id,
                                              manual.pending.row)
    /\ manual' = [manual EXCEPT !.pc = "loop", !.pending = None, !.idx = @ + 1,
                                !.new_events_count = @ + 1]
    /\ calls' = <<>>
    /\ UNCHANGED <<config, pc, an_events, idx, new_events_count, updated_events_count,
                   deleted_events_count, result, prev, platform_events, time_str,
                   utc_time, end_date, delivery, answers, pending>>

\* app.py:692-697, 866-884: the request's pass returns its summary and the
\* response is sent.
ManualFinish ==
    /\ manual.pc = "loop"
    /\ manual.idx = Len(manual.an_events)
    /\ manual' = NoManualPass
    /\ calls' = <<>>
    /\ UNCHANGED <<config, event_mappings, pc, an_events, idx, new_events_count,
                   updated_events_count, deleted_events_count, result, prev,
                   platform_events, time_str, utc_time, end_date, delivery, answers,
                   pending>>

NextConcurrent ==
    \/ StartPassConcurrent \/ ProcessEventTracked \/ EndPass \/ Return
    \/ ManualStart \/ ManualProcess \/ ManualRecord \/ ManualFinish

SpecConcurrent == Init /\ [][NextConcurrent]_vars

(***************************************************************************)
(* The description sent to Discord, built by create_discord_event_direct   *)
(* (app.py:376-396) and, statement for statement, by                       *)
(* update_discord_event_direct (app.py:445-465).  A text is the sequence   *)
(* of its runs, a run being a character and the number of times it is      *)
(* repeated: "aaa<p>" is <<Run("a", 3), Run("<", 1), Run("p", 1),          *)
(* Run(">", 1)>>.  None and '' are the empty sequence.                     *)
(***************************************************************************)
Run(ch, n) == [ch |-> ch, n |-> n]

\* A string literal, given by its characters.
Literal(chars) == [i \in 1..Len(chars) |-> Run(chars[i], 1)]

\* The one writing of a text: no empty run, no two adjacent runs of one character.
RECURSIVE Canonical(_)
Canonical(text) ==
    IF text = <<>> THEN <<>>
    ELSE IF Head(text).n = 0 THEN Canonical(Tail(text))
    ELSE LET rest == Canonical(Tail(text))
         IN  IF rest # <<>> /\ Head(rest).ch = Head(text).ch
             THEN <<Run(Head(text).ch, Head(text).n + Head(rest).n)>> \o Tail(rest)
             ELSE <<Head(text)>> \o rest

\* len(description)
RECURSIVE len(_)
len(text) == IF text = <<>> THEN 0 ELSE Head(text).n + len(Tail(text))

\* description[:n]
RECURSIVE Slice(_, _)
Slice(text, n) ==
    IF text = <<>> \/ n = 0 THEN <<>>
    ELSE IF Head(text).n >= n THEN <<Run(Head(text).ch, n)>>
    ELSE <<Head(text)>> \o Slice(Tail(text), n - Head(text).n)

\* Position of the first run of '>' in a text, 0 if it has none.
FirstClose(text) ==
    IF \E j \in 1..Len(text) : text[j].ch = ">"
    THEN CHOOSE j \in 1..Len(text) :
            /\ text[j].ch = ">"
            /\ \A k \in 1..(j - 1) : text[k].ch # ">"
    ELSE 0

\* app.py:384: re.sub(r'<[^>]+>', '', description).  A match starts at a '<',
\* takes one or more characters other than '>' and ends at the first '>'; "<>"
\* is no match, and neither is a '<' that no '>' follows.
RECURSIVE strip_tags(_)
strip_tags(text) ==
    IF text = <<>> THEN <<>>
    ELSE IF Head(text).ch # "<" THEN <<Head(text)>> \o strip_tags(Tail(text))
    ELSE LET j == FirstClose(text)
         IN  IF j = 0 THEN text
             ELSE IF Head(text).n = 1 /\ j = 2
                  THEN <<Head(text)>> \o strip_tags(Tail(text))
                  ELSE strip_tags(<<Run(">", text[j].n - 1)>>
                                  \o SubSeq(text, j + 1, Len(text)))

Whitespace == {" ", "\n"}

\* app.py:386: re.sub(r'\s+', ' ', description): every stretch of whitespace
\* becomes one space.
RECURSIVE collapse_whitespace(_)
collapse_whitespace(text) ==
    IF text = <<>> THEN <<>>
    ELSE IF Head(text).ch \notin Whitespace
         THEN <<Head(text)>> \o collapse_whitespace(Tail(text))
    ELSE LET rest == collapse_whitespace(Tail(text))
         IN  IF rest # <<>> /\ Head(rest).ch = " " THEN rest
             ELSE <<Run(" ", 1)>> \o rest

\* app.py:386: .strip()
strip(text) ==
    LET a == IF text # <<>> /\ Head(text).ch \in Whitespace THEN Tail(text) ELSE text
    IN  IF a # <<>> /\ a[Len(a)].ch \in Whitespace THEN SubSeq(a, 1, Len(a) - 1) ELSE a

\* app.py:377-392: the description before the limit is applied.
untruncated_description(description, registration_url) ==
    LET cleaned ==
            IF description # <<>>
            THEN strip(collapse_whitespace(Canonical(strip_tags(description))))
            ELSE description
    IN  Canonical(
          IF registration_url # <<>>
          THEN IF cleaned # <<>>
               THEN cleaned
                    \o Literal(<<"\n", "\n", "R", "e", "g", "i", "s", "t", "e", "r", ":", " ">>)
                    \o registration_url
               ELSE Literal(<<"R", "e", "g", "i", "s", "t", "e", "r", ":", " ">>)
                    \o registration_url
          ELSE cleaned)

\* app.py:395: Discord's limit on a description.
DiscordLimit == 1000

\* app.py:396: what is kept of a description over the limit.
DiscordKept == 997

\* The limit applied by cutting at the limit and then adding the dots.
discord_description_cut_at_limit(description, registration_url) ==
    LET text == untruncated_description(description, registration_url)
    IN  IF len(text) > DiscordLimit
        THEN Canonical(Slice(text, DiscordLimit) \o Literal(<<".", ".", ".">>))
        ELSE text

\* app.py:377-396 (and 446-465): the description of the payload.
discord_description(description, registration_url) ==
    LET text == untruncated_description(description, registration_url)
    IN  IF len(text) > DiscordLimit
        THEN Canonical(Slice(text, DiscordKept) \o Literal(<<".", ".", ".">>))
        ELSE text

\* Source descriptions whose lengths lie on both sides of the limit: plain
\* text, text in an HTML paragraph, text with a line break in it.
TextMargin == 45

UrlLen == 30

TextLengths == {0} \cup ((DiscordLimit - TextMargin)..(DiscordLimit + TextMargin))

SourceTexts ==
    UNION {{Canonical(<<Run("a", n)>>),
            Canonical(<<Run("<", 1), Run("p", 1), Run(">", 1), Run("a", n),
                        Run("<", 1), Run("/", 1), Run("p", 1), Run(">", 1)>>),
            Canonical(<<Run("a", n), Run(" ", 2), Run("\n", 1), Run("b", 3)>>)}
           : n \in TextLengths}

RegistrationUrls == {<<>>, <<Run("u", UrlLen)>>}

reconciliation == <<config, event_mappings, pc, an_events, idx, new_events_count,
                    updated_events_count, deleted_events_count, result, calls, prev,
                    platform_events, manual, pending>>

\* app.py:367-369, 437-438: the adapters build a payload only when Discord
\* is configured.
InitDelivery == Init /\ discord_configured

\* app.py:376-401 and 445-470: an adapter builds the description of its payload.
Deliver ==
    /\ delivery = None
    /\ \E description \in SourceTexts, registration_url \in RegistrationUrls :
          delivery' = [description |-> description,
                       registration_url |-> registration_url,
                       delivered |-> discord_description(description, registration_url)]
    /\ UNCHANGED <<reconciliation, time_str, utc_time, end_date, answers>>

\* app.py:418, 485: the payload is sent and the adapter returns.
Send ==
    /\ delivery # None
    /\ delivery' = None
    /\ UNCHANGED <<reconciliation, time_str, utc_time, end_date, answers>>

NextDelivery == Deliver \/ Send

SpecDelivery == InitDelivery /\ [][NextDelivery]_vars

(***************************************************************************)
(* The background loop (background_sync, app.py:743-753) under fairness:   *)
(* time.sleep returns after 30 minutes, every platform call and the fetch  *)
(* return, and the thread is scheduled again, so each step of the loop     *)
(* that stays possible is eventually taken.                                *)
(***************************************************************************)
\* The timer's passes fetch one event at most, of any shape.
BackgroundBatches == {<<>>} \cup {<<e>> : e \in ShapedEvents}

StartPassBackground == Fetch(BackgroundBatches)

NextBackground == StartPassBackground \/ ProcessEvent \/ Abort \/ EndPass \/ Return

SpecBackground ==
    /\ Init
    /\ [][NextBackground]_vars
    /\ WF_vars(StartPassBackground)
    /\ WF_vars(ProcessEvent)
    /\ WF_vars(Abort)
    /\ WF_vars(EndPass)
    /\ WF_vars(Return)

(***************************************************************************)
(* What a platform answers to a call, and what the adapter makes of it.    *)
(* An answer is a raised error (requests.RequestException, HttpError, ...) *)
(* or a response with a status code; googleapiclient raises HttpError for  *)
(* every response that is not a success, so Google's answers are the       *)
(* return of execute() and a raised error.                                 *)
(***************************************************************************)
Answer(raised, status_code) == [raised |-> raised, status_code |-> status_code]

StatusCodes == {200, 201, 204, 400, 404, 429, 500}

GoogleAnswers == {Answer(FALSE, 200), Answer(TRUE, 0)}

DiscordAnswers == {Answer(TRUE, 0)} \cup {Answer(FALSE, code) : code \in StatusCodes}

\* app.py:289-314, 330-341, 351-361: execute() returned; except Exception
\* gives None or False.
google_reports_success(op, answer) == ~answer.raised

\* An adapter that takes every 2xx status for success.
discord_reports_success_any_2xx(op, answer) ==
    ~answer.raised /\ answer.status_code \in 200..299

\* app.py:420-431, 487-496: status_code == 200; app.py:514-523: status_code ==
\* 204; every other status and except Exception give None or False.
discord_reports_success(op, answer) ==
    /\ ~answer.raised
    /\ answer.status_code = (IF op = "delete" THEN 204 ELSE 200)

\* app.py:575, 602: the operation an iteration asks of the platforms.
operation_of(an_event, mappings) ==
    IF an_event.status = "cancelled" THEN "delete"
    ELSE IF is_new(ExtractId(an_event), mappings) THEN "create"
    ELSE "update"

\* app.py:540-690: process the next event of the batch, the platforms
\* answering as they choose.
ProcessAnswered ==
    /\ pc = "loop"
    /\ idx < Len(an_events)
    /\ ~Raises(an_events[idx + 1])
    /\ \E google \in GoogleAnswers, discord \in DiscordAnswers :
          LET op == operation_of(an_events[idx + 1], event_mappings)
              out == process_event(an_events[idx + 1], event_mappings,
                                   google_reports_success(op, google),
                                   discord_reports_success(op, discord))
          IN  /\ event_mappings' = out.mappings
              /\ calls' = out.calls
              /\ new_events_count' = new_events_count + out.new
              /\ updated_events_count' = updated_events_count + out.updated
              /\ deleted_events_count' = deleted_events_count + out.deleted
              /\ answers' = [google |-> google, discord |-> discord]
    /\ idx' = idx + 1
    /\ UNCHANGED <<config, pc, an_events, result, prev, platform_events, manual,
                   time_str, utc_time, end_date, delivery, pending>>

NextAnswers == StartPassSingle \/ ProcessAnswered \/ EndPass \/ Return

SpecAnswers == Init /\ [][NextAnswers]_vars

(***************************************************************************)
(* The requests that write the mapping table between the passes:           *)
(* /force-update/<event_id> (force_update_event, app.py:912-1016) and      *)
(* /clear-mappings (clear_mappings, app.py:1018-1033).                     *)
(***************************************************************************)
\* app.py:927-952: the first fetched event whose extracted id is event_id, None
\* if there is none.
target_event_of(batch, event_id) ==
    LET found == {i \in 1..Len(batch) : ExtractId(batch[i]) = event_id}
    IN  IF found = {} THEN None
        ELSE batch[CHOOSE i \in found : \A j \in found : i <= j]

\* app.py:960-1009: the event is transformed and sent to every platform the row
\* records an id for; the row's metadata is rewritten if an update succeeded.
force_update(target_event, event_id, mappings, g_ok, d_ok) ==
    LET google_event_data == transform_to_google_event(target_event)
        stored_info == mappings[event_id]
    IN  IF google_event_data # None
        THEN LET g == IF Truthy(stored_info.google_id) /\ Truthy(stored_info.google_calendar_id)
                      THEN update_google_event(stored_info.google_id,
                                               stored_info.google_calendar_id,
                                               target_event, event_id, g_ok)
                      ELSE [value |-> None, calls |-> <<>>]
                 d == IF Truthy(stored_info.discord_id)
                      THEN update_discord_event_direct(stored_info.discord_id, target_event,
                                                       google_event_data, event_id, d_ok)
                      ELSE [value |-> None, calls |-> <<>>]
                 updated_platforms ==
                     (IF Truthy(g.value) THEN {"Google Calendar"} ELSE {})
                     \cup (IF Truthy(d.value) THEN {"Discord"} ELSE {})
             IN  IF updated_platforms # {}
                 THEN Outcome([mappings EXCEPT
                                   ![event_id].last_modified = target_event.modified_date,
                                   ![event_id].status = target_event.status,
                                   ![event_id].title = target_event.title],
                              g.calls \o d.calls, 0, 0, 0)
                 ELSE Outcome(mappings, g.calls \o d.calls, 0, 0, 0)
        ELSE Outcome(mappings, <<>>, 0, 0, 0)

\* app.py:912-1016: a /force-update request for a mapped event the source still
\* lists, served between two passes.  (For an event that is not mapped or not
\* fetched the handler answers 404 and changes nothing, app.py:918-922, 954-958.)
ForceUpdate(batches) ==
    /\ pc = "idle"
    /\ \E event_id \in DOMAIN event_mappings, batch \in batches,
          g_ok \in BOOLEAN, d_ok \in BOOLEAN :
          LET target_event == target_event_of(batch, event_id) IN
          /\ target_event # None
          /\ LET out == force_update(target_event, event_id, event_mappings, g_ok, d_ok)
             IN  /\ event_mappings' = out.mappings
                 /\ calls' = out.calls
    /\ UNCHANGED <<config, pc, an_events, idx, new_events_count, updated_events_count,
                   deleted_events_count, result, prev, platform_events, outside>>

force_update_event == ForceUpdate(SingleEventBatches)

NextControl ==
    \/ StartPassSingle \/ ProcessEvent \/ EndPass \/ Return
    \/ force_update_event \/ clear_mappings

SpecControl == Init /\ [][NextControl]_vars

(***************************************************************************)
(* Passes over the source of two events, with /clear-mappings requests     *)
(* between them.                                                           *)
(***************************************************************************)
NextRemoval == StartPass \/ ProcessEvent \/ EndPass \/ Return \/ clear_mappings

SpecRemoval == Init /\ [][NextRemoval]_vars

(***************************************************************************)
(* A pass beside the requests that remove rows.  Between the membership    *)
(* test of an iteration (app.py:577, 602) and its last access to the row   *)
(* (del at app.py:594, the writes at app.py:682-684) lie the platform      *)
(* calls, during which the thread can be switched out: the iteration of a  *)
(* mapped event that issues calls is two steps, and /clear-mappings        *)
(* (app.py:1018-1033) or the cancelled path of the pass of a /sync request *)
(* (app.py:857-864) can run between them.  The event_mappings[event_id] of a key that is gone   *)
(* raises KeyError, which nothing catches before the except around the     *)
(* whole loop (app.py:699-701).                                            *)
(***************************************************************************)
InterleavedBatches ==
    {<<>>} \cup {<<SourceEvent("e1", st, m)>> \o rest :
                    st \in Statuses, m \in ModifiedDates,
                    rest \in {<<>>, <<SourceEvent("e2", "confirmed", 1)>>}}

StartPassInterleaved == Fetch(InterleavedBatches)

\* app.py:577-592, 602-678: the event is mapped and its iteration calls a
\* platform before it is done with the row.
holds_row_over_calls(an_event, mappings) ==
    /\ ExtractId(an_event) \in DOMAIN mappings
    /\ process_event(an_event, mappings, TRUE, TRUE).calls # <<>>

\* The access to the row that follows the calls: del (app.py:594), the three
\* writes (app.py:682-684), or none when every update failed (app.py:686-687).
row_access(an_event, out) ==
    IF an_event.status = "cancelled" THEN "del"
    ELSE IF out.updated = 1 THEN "write"
    ELSE "none"

\* app.py:540-602, 637-690 for an event that holds no row over a platform call.
ProcessAtOnce ==
    /\ pc = "loop"
    /\ idx < Len(an_events)
    /\ ~Raises(an_events[idx + 1])
    /\ ~holds_row_over_calls(an_events[idx + 1], event_mappings)
    /\ ProcessEvent

\* app.py:577-592, 637-678: membership test, read of stored_info and the
\* platform calls of a mapped event.
BeginMapped ==
    /\ pc = "loop"
    /\ idx < Len(an_events)
    /\ ~Raises(an_events[idx + 1])
    /\ holds_row_over_calls(an_events[idx + 1], event_mappings)
    /\ \E g_ok \in BOOLEAN, d_ok \in BOOLEAN :
          LET an_event == an_events[idx + 1]
              out == process_event(an_event, event_mappings, g_ok, d_ok)
          IN  /\ calls' = out.calls
              /\ pending' = [event_id |-> ExtractId(an_event),
                             access   |-> row_access(an_event, out),
                             an_event |-> an_event,
                             updated  |-> out.updated,
                             deleted  |-> out.deleted]
    /\ pc' = "writing"
    /\ UNCHANGED <<config, event_mappings, an_events, idx, new_events_count,
                   updated_events_count, deleted_events_count, result, prev,
                   platform_events, manual, time_str, utc_time, end_date, delivery,
                   answers>>

\* app.py:594-599, 682-690: the row is still there (or is not needed any more);
\* the iteration ends.
CompleteMapped ==
    /\ pc = "writing"
    /\ pending.access = "none" \/ pending.event_id \in DOMAIN event_mappings
    /\ event_mappings' =
          CASE pending.access = "del" -> Remove(event_mappings, pending.event_id)
            [] pending.access = "write" ->
                  [event_mappings EXCEPT
                      ![pending.event_id].last_modified = pending.an_event.modified_date,
                      ![pending.event_id].status = pending.an_event.status,
                      ![pending.event_id].title = pending.an_event.title]
            [] OTHER -> event_mappings
    /\ updated_events_count' = updated_events_count + pending.updated
    /\ deleted_events_count' = deleted_events_count + pending.deleted
    /\ idx' = idx + 1
    /\ pc' = "loop"
    /\ pending' = None
    /\ UNCHANGED <<config, an_events, new_events_count, result, calls, prev,
                   platform_events, manual, time_str, utc_time, end_date, delivery,
                   answers>>

\* app.py:594, 682 and 699-701: the row is gone; del event_mappings[event_id]
\* or event_mappings[event_id][...] = ... raises KeyError and the pass returns
\* {'error': str(e)}.
RaiseKeyError ==
    /\ pc = "writing"
    /\ pending.access # "none"
    /\ pending.event_id \notin DOMAIN event_mappings
    /\ result' = [error |-> pending.event_id]
    /\ an_events' = <<>>
    /\ idx' = 0
    /\ new_events_count' = 0
    /\ updated_events_count' = 0
    /\ deleted_events_count' = 0
    /\ calls' = <<>>
    /\ pc' = "returned"
    /\ pending' = None
    /\ UNCHANGED <<config, event_mappings, prev, platform_events, manual, time_str,
                   utc_time, end_date, delivery, answers>>

\* app.py:1018-1033: a /clear-mappings request served while a pass is running.
clear_mappings_in_pass ==
    /\ pc \in {"loop", "writing"}
    /\ event_mappings # <<>>
    /\ event_mappings' = <<>>
    /\ UNCHANGED <<config, pc, an_events, idx, new_events_count, updated_events_count,
                   deleted_events_count, result, calls, prev, platform_events, outside>>

\* app.py:577-599 in the pass of a /sync request that runs beside this one
\* (app.py:857-864) and has fetched a mapped event as cancelled: its deletes
\* are sent and the row is dropped.
cancelled_in_other_pass ==
    /\ pc \in {"loop", "writing"}
    /\ \E event_id \in DOMAIN event_mappings, g_ok \in BOOLEAN, d_ok \in BOOLEAN :
          event_mappings' = cancelled_path(event_id, event_mappings, g_ok, d_ok).mappings
    /\ UNCHANGED <<config, pc, an_events, idx, new_events_count, updated_events_count,
                   deleted_events_count, result, calls, prev, platform_events, outside>>

NextInterleaved ==
    \/ StartPassInterleaved \/ ProcessAtOnce \/ BeginMapped \/ CompleteMapped
    \/ RaiseKeyError \/ EndPass \/ Return
    \/ clear_mappings \/ clear_mappings_in_pass \/ cancelled_in_other_pass

SpecInterleaved == Init /\ [][NextInterleaved]_vars

(***************************************************************************)
(* One pass under fairness: every platform call returns, so each iteration *)
(* of the loop (app.py:540-690) that has begun is completed, and so is the *)
(* return (app.py:692-701).                                                *)
(***************************************************************************)
\* The events of a batch: one to create or update, one to cancel, and one at
\* which the loop raises.
PassEvents ==
    {RegularEvent,
     ShapedEvent(Shape(<< <<"action_network", "abc-123">> >>, "", <<>>), "cancelled"),
     ShapedEvent(Shape(<<>>, UnhashableId, <<>>), "confirmed")}

RECURSIVE PassTails(_)
PassTails(n) ==
    IF n = 0 THEN {<<>>}
    ELSE {<<>>} \cup {<<e>> \o rest : e \in PassEvents, rest \in PassTails(n - 1)}

PassBatches == PassTails(MaxBatch)

StartPassOnce == Fetch(PassBatches)

NextPass == StartPassOnce \/ ProcessEvent \/ Abort \/ EndPass \/ Return

SpecPass ==
    /\ Init
    /\ [][NextPass]_vars
    /\ WF_vars(ProcessEvent)
    /\ WF_vars(Abort)
    /\ WF_vars(EndPass)

(***************************************************************************)
(* Vocabulary of the properties.                                           *)
(***************************************************************************)
\* This step processes the next event of the batch.
IsProcessStep == pc = "loop" /\ idx < Len(an_events) /\ idx' = idx + 1

\* The event the next ProcessEvent step processes, and its extracted id.
StepEvent == an_events[idx + 1]

StepId == ExtractId(StepEvent)

\* The event the last ProcessEvent step processed, and its extracted id.
LastEvent == an_events[idx]

LastId == ExtractId(LastEvent)

AfterProcessStep == pc = "loop" /\ idx > 0

CallsOf(cs, op, platform) ==
    {i \in 1..Len(cs) : cs[i].op = op /\ cs[i].platform = platform}

Succeeded(cs, op, platform) ==
    \E i \in CallsOf(cs, op, platform) : cs[i].ok

AllSucceeded(cs) == \A i \in 1..Len(cs) : cs[i].ok

\* The destination id a mapping row records for a platform.
RecordedId(row, platform) ==
    IF platform = "google"
    THEN (IF Truthy(row.google_calendar_id) THEN row.google_id ELSE None)
    ELSE row.discord_id

\* The platform is configured for this event: its credentials are present and,
\* for Google Calendar, the routing resolves to a calendar.
Configured(platform, an_event) ==
    IF platform = "google"
    THEN google_service /\ Truthy(get_google_calendar_id(an_event).calendar_id)
    ELSE discord_configured

\* The row records the status and modified_date of the event.
RowMatches(row, an_event) ==
    row.last_modified = an_event.modified_date /\ row.status = an_event.status

(***************************************************************************)
(* C1.  As stated: whenever a pass fetches an event with the modified_date *)
(* the previous pass fetched for it, the pass issues no platform call for  *)
(* that event, whatever the previous pass did.                             *)
(***************************************************************************)
C1_SameModifiedDateNoCalls ==
    [][(/\ IsProcessStep
        /\ StepId # ""
        /\ prev[StepId] # None
        /\ prev[StepId].modified_date = StepEvent.modified_date)
       => calls' = <<>>]_vars

(***************************************************************************)
(* C1, amended.  Whenever a pass fetches an event with the modified_date   *)
(* and the status the previous pass fetched for it, the pass issues no     *)
(* platform call for that event if the event is cancelled or the previous  *)
(* pass left a mapping row recording that modified_date and status.        *)
(***************************************************************************)
C1_UnchangedAndSyncedNoCalls ==
    [][(/\ IsProcessStep
        /\ StepId # ""
        /\ prev[StepId] # None
        /\ prev[StepId].modified_date = StepEvent.modified_date
        /\ prev[StepId].status = StepEvent.status
        /\ \/ StepEvent.status = "cancelled"
           \/ /\ StepId \in DOMAIN event_mappings
              /\ RowMatches(event_mappings[StepId], StepEvent))
       => calls' = <<>>]_vars

\* C1 witness: a second pass has processed an unchanged, synced event without a call.
C1_Witness ==
    /\ AfterProcessStep
    /\ prev[LastId] # None
    /\ prev[LastId].modified_date = LastEvent.modified_date
    /\ prev[LastId].status = LastEvent.status
    /\ LastEvent.status # "cancelled"
    /\ LastId \in DOMAIN event_mappings
    /\ RowMatches(event_mappings[LastId], LastEvent)
    /\ calls = <<>>

(***************************************************************************)
(* C2.  End to end, for every configuration and with every attempted call  *)
(* succeeding: (1) a pass over a new confirmed event issues exactly one    *)
(* create call per configured platform and adds one mapping row; (2) the   *)
(* next pass over the same unmodified event issues no call; (3) a pass in  *)
(* which the event is cancelled issues one delete call per platform that   *)
(* holds a recorded id and removes the row.                                *)
(***************************************************************************)
C2_FirstPass ==
    (/\ StepEvent.status = "confirmed"
     /\ StepId \notin DOMAIN event_mappings
     /\ transform_to_google_event(StepEvent) # None
     /\ AllSucceeded(calls'))
    => /\ \A p \in Platforms :
            Cardinality(CallsOf(calls', "create", p))
                = IF Configured(p, StepEvent) THEN 1 ELSE 0
       /\ \A i \in 1..Len(calls') : calls'[i].op = "create"
       /\ (\E p \in Platforms : Configured(p, StepEvent))
            => DOMAIN event_mappings' = DOMAIN event_mappings \cup {StepId}

C2_SecondPass ==
    (/\ StepEvent.status = "confirmed"
     /\ prev[StepId] = [status |-> "confirmed", modified_date |-> StepEvent.modified_date]
     /\ StepId \in DOMAIN event_mappings
     /\ RowMatches(event_mappings[StepId], StepEvent))
    => calls' = <<>>

C2_ThirdPass ==
    (/\ StepEvent.status = "cancelled"
     /\ prev[StepId] # None
     /\ prev[StepId].status = "confirmed"
     /\ StepId \in DOMAIN event_mappings
     /\ AllSucceeded(calls'))
    => /\ \A p \in Platforms :
            Cardinality(CallsOf(calls', "delete", p))
                = IF Truthy(RecordedId(event_mappings[StepId], p)) THEN 1 ELSE 0
       /\ \A i \in 1..Len(calls') : calls'[i].op = "delete"
       /\ StepId \notin DOMAIN event_mappings'

C2_EndToEnd ==
    [][(IsProcessStep /\ StepId # "")
       => (C2_FirstPass /\ C2_SecondPass /\ C2_ThirdPass)]_vars

\* The second and third stage of C2 alone, which the code satisfies.
C2_LaterPasses ==
    [][(IsProcessStep /\ StepId # "") => (C2_SecondPass /\ C2_ThirdPass)]_vars

(***************************************************************************)
(* C3.  For every non-cancelled event without a mapping row, a create call *)
(* is issued to every configured platform, whatever the create on the      *)
(* other platform did, and a destination id is recorded only for a         *)
(* platform whose create succeeded.                                        *)
(***************************************************************************)
C3_CreateOnEveryConfiguredPlatform ==
    [][(/\ IsProcessStep
        /\ StepId # ""
        /\ StepEvent.status # "cancelled"
        /\ StepId \notin DOMAIN event_mappings
        /\ transform_to_google_event(StepEvent) # None)
       => /\ \A p \in Platforms :
               Configured(p, StepEvent) => CallsOf(calls', "create", p) # {}
          /\ StepId \in DOMAIN event_mappings'
               => \A p \in Platforms :
                     Truthy(RecordedId(event_mappings'[StepId], p))
                        => Succeeded(calls', "create", p)]_vars

(***************************************************************************)
(* C4.  After the create path has run for a non-cancelled event without a  *)
(* mapping row, the row exists if and only if at least one platform create *)
(* succeeded.                                                              *)
(***************************************************************************)
C4_RowIffSomeCreateSucceeded ==
    [][(/\ IsProcessStep
        /\ StepId # ""
        /\ StepEvent.status # "cancelled"
        /\ StepId \notin DOMAIN event_mappings)
       => (StepId \in DOMAIN event_mappings'
             <=> \E p \in Platforms : Succeeded(calls', "create", p))]_vars

\* C4 witness: the Google create succeeded, the Discord create failed, the row exists.
C4_Witness ==
    /\ AfterProcessStep
    /\ Succeeded(calls, "create", "google")
    /\ CallsOf(calls, "create", "discord") # {}
    /\ ~Succeeded(calls, "create", "discord")
    /\ LastId \in DOMAIN event_mappings
    /\ event_mappings[LastId].discord_id = None

(***************************************************************************)
(* C5.  While a mapping row with a destination id missing for some         *)
(* platform exists, no step of a sync pass issues a create call for its    *)
(* source id on any platform.                                              *)
(***************************************************************************)
C5_MissingPlatformNeverRetried ==
    [][\A s \in DOMAIN event_mappings :
          (\E p \in Platforms : ~Truthy(RecordedId(event_mappings[s], p)))
          => \A i \in 1..Len(calls') :
                ~(calls'[i].op = "create" /\ calls'[i].event_id = s)]_vars

\* C5 witness: a later pass updated an event whose row lacks the Discord id,
\* on a service with Discord configured, and the row still lacks it.
C5_Witness ==
    /\ AfterProcessStep
    /\ discord_configured
    /\ LastId \in DOMAIN event_mappings
    /\ event_mappings[LastId].discord_id = None
    /\ Succeeded(calls, "update", "google")

(***************************************************************************)
(* C6.  For a cancelled event with a mapping row, a delete call is issued  *)
(* on every platform for which the row records a destination id, whatever  *)
(* the other delete returned, and the row is removed whatever the deletes  *)
(* returned.                                                               *)
(***************************************************************************)
C6_CancelDeletesEverywhereAndDropsRow ==
    [][(/\ IsProcessStep
        /\ StepId # ""
        /\ StepEvent.status = "cancelled"
        /\ StepId \in DOMAIN event_mappings)
       => /\ \A p \in Platforms :
               LET dest == RecordedId(event_mappings[StepId], p) IN
               Truthy(dest)
                 => \E i \in CallsOf(calls', "delete", p) : calls'[i].dest = dest
          /\ StepId \notin DOMAIN event_mappings']_vars

\* C6 witness: the Discord delete failed, the Google delete was still issued,
\* and the row is gone.
C6_Witness ==
    /\ AfterProcessStep
    /\ LastEvent.status = "cancelled"
    /\ CallsOf(calls, "delete", "discord") # {}
    /\ ~Succeeded(calls, "delete", "discord")
    /\ CallsOf(calls, "delete", "google") # {}
    /\ LastId \notin DOMAIN event_mappings

(***************************************************************************)
(* C7.  A cancelled event without a mapping row causes no platform call    *)
(* and leaves the mapping table unchanged.                                 *)
(***************************************************************************)
C7_CancelledUnmappedIsNoOp ==
    [][(/\ IsProcessStep
        /\ StepId # ""
        /\ StepEvent.status = "cancelled"
        /\ StepId \notin DOMAIN event_mappings)
       => (calls' = <<>> /\ event_mappings' = event_mappings)]_vars

\* C7 witness: a cancelled event was processed without a call while another
\* event holds a row (a cancelled event with a row always gets a delete call).
C7_Witness ==
    /\ AfterProcessStep
    /\ LastEvent.status = "cancelled"
    /\ calls = <<>>
    /\ LastId \notin DOMAIN event_mappings
    /\ DOMAIN event_mappings # {}

(***************************************************************************)
(* C8.  As stated: for a non-cancelled event with a mapping row, update    *)
(* calls are issued exactly when the fetched modified_date or status       *)
(* differs from the recorded one, and then to exactly the platforms for    *)
(* which the row records a destination id.                                 *)
(***************************************************************************)
C8_UpdateExactlyWhenChanged ==
    [][(/\ IsProcessStep
        /\ StepId # ""
        /\ StepEvent.status # "cancelled"
        /\ StepId \in DOMAIN event_mappings)
       => LET row == event_mappings[StepId]
              changed == ~RowMatches(row, StepEvent)
          IN  \A p \in Platforms :
                 CallsOf(calls', "update", p) # {}
                    <=> (changed /\ Truthy(RecordedId(row, p)))]_vars

(***************************************************************************)
(* C8, amended.  For a non-cancelled event with a mapping row, update      *)
(* calls are issued exactly when the fetched modified_date or status       *)
(* differs from the recorded one and the transform of the event succeeds,  *)
(* and then to exactly the platforms for which the row records a           *)
(* destination id; no other call is issued.                                *)
(***************************************************************************)
C8_UpdateWhenChangedAndTransformed ==
    [][(/\ IsProcessStep
        /\ StepId # ""
        /\ StepEvent.status # "cancelled"
        /\ StepId \in DOMAIN event_mappings)
       => LET row == event_mappings[StepId]
              changed == ~RowMatches(row, StepEvent)
              transformed == transform_to_google_event(StepEvent) # None
          IN  /\ \A p \in Platforms :
                    CallsOf(calls', "update", p) # {}
                       <=> (changed /\ transformed /\ Truthy(RecordedId(row, p)))
              /\ \A i \in 1..Len(calls') : calls'[i].op = "update"]_vars

\* C8 witness: only the status changed, and the update went to Google Calendar
\* alone because the row records no Discord id.
C8_Witness ==
    /\ AfterProcessStep
    /\ LastId \in DOMAIN event_mappings
    /\ event_mappings[LastId].discord_id = None
    /\ event_mappings[LastId].last_modified = LastEvent.modified_date
    /\ event_mappings[LastId].status # LastEvent.status
    /\ CallsOf(calls, "update", "google") # {}
    /\ CallsOf(calls, "update", "discord") = {}

(***************************************************************************)
(* C9.  On the update path the row's last_modified, status and title are   *)
(* overwritten with the fetched values only if at least one platform       *)
(* update succeeded; if every update fails or the transform fails, the     *)
(* mapping table is left as it was.  When an update succeeded, exactly     *)
(* these three fields take the fetched values.                             *)
(***************************************************************************)
C9_MetadataRecordedOnlyOnSuccess ==
    [][(/\ IsProcessStep
        /\ StepId # ""
        /\ StepEvent.status # "cancelled"
        /\ StepId \in DOMAIN event_mappings)
       => IF \E p \in Platforms : Succeeded(calls', "update", p)
          THEN event_mappings' =
                  [event_mappings EXCEPT ![StepId].last_modified = StepEvent.modified_date,
                                         ![StepId].status = StepEvent.status,
                                         ![StepId].title = StepEvent.title]
          ELSE event_mappings' = event_mappings]_vars

\* C9 witness: both updates were issued and failed, and the row still records
\* the old modified_date.
C9_Witness ==
    /\ AfterProcessStep
    /\ LastId \in DOMAIN event_mappings
    /\ CallsOf(calls, "update", "google") # {}
    /\ CallsOf(calls, "update", "discord") # {}
    /\ \A i \in 1..Len(calls) : ~calls[i].ok
    /\ event_mappings[LastId].last_modified # LastEvent.modified_date

(***************************************************************************)
(* C10.  For a non-cancelled event whose mapping row records the fetched   *)
(* modified_date and status, no platform call is issued and the mapping    *)
(* table is unchanged.                                                     *)
(***************************************************************************)
C10_UnchangedIsNoOp ==
    [][(/\ IsProcessStep
        /\ StepId # ""
        /\ StepEvent.status # "cancelled"
        /\ StepId \in DOMAIN event_mappings
        /\ RowMatches(event_mappings[StepId], StepEvent))
       => (calls' = <<>> /\ event_mappings' = event_mappings)]_vars

\* C10 witness: a non-cancelled event whose row records its modified_date and
\* status was processed without a call (a create or a recorded update leaves calls).
C10_Witness ==
    /\ AfterProcessStep
    /\ LastEvent.status # "cancelled"
    /\ LastId \in DOMAIN event_mappings
    /\ RowMatches(event_mappings[LastId], LastEvent)
    /\ event_mappings[LastId].title = LastEvent.title
    /\ calls = <<>>

(***************************************************************************)
(* C11.  As stated: in every state reachable by non-overlapping sync       *)
(* passes, each source id has at most one recorded destination id per      *)
(* platform (a row has one field per platform), and for each source id and *)
(* platform at most one destination event created and not yet successfully *)
(* deleted exists.                                                         *)
(***************************************************************************)
C11_AtMostOneLiveDestination ==
    \A k \in DOMAIN platform_events : platform_events[k].live <= 1

\* The number of destination ids the mapping table records for a platform and
\* source id.
Recorded(platform, event_id) ==
    IF event_id \in DOMAIN event_mappings
       /\ Truthy(RecordedId(event_mappings[event_id], platform))
    THEN 1 ELSE 0

(***************************************************************************)
(* C11, amended.  In every state reachable by non-overlapping sync passes, *)
(* the destination events of a source id that a platform holds are the one *)
(* the mapping row records, if it records one, and one more for every      *)
(* delete call for that source id that failed on the platform.             *)
(***************************************************************************)
C11_LiveIsRecordedPlusFailedDeletes ==
    \A k \in DOMAIN platform_events :
        platform_events[k].live
            = Recorded(k[1], k[2]) + platform_events[k].delete_failed

\* C11 witness: a delete failed, the event was created again, and Google
\* Calendar holds two destination events of which the row records one.
C11_Witness ==
    /\ platform_events[<<"google", "e1">>].live = 2
    /\ platform_events[<<"google", "e1">>].delete_failed = 1
    /\ Recorded("google", "e1") = 1

(***************************************************************************)
(* C12.  With the timer's pass and the pass of a /sync request running at  *)
(* once, an interleaving is reachable (C12_Witness) in which both passes   *)
(* found the same source id unmapped and both created it on the same       *)
(* platform.  Whenever the request's pass then writes its row over the row *)
(* the timer's pass wrote meanwhile, the row records the request's         *)
(* destination id and no longer the timer's, and the platform holds both   *)
(* destination events.                                                     *)
(***************************************************************************)
C12_LaterRowOverwritesEarlier ==
    [][(/\ manual.pc = "recording"
        /\ manual'.pc = "loop"
        /\ manual.pending.event_id \in DOMAIN event_mappings)
       => LET s == manual.pending.event_id IN
          /\ event_mappings'[s] = manual.pending.row
          /\ event_mappings[s].google_id # manual.pending.row.google_id
          /\ platform_events'[<<"google", s>>].live >= 2]_vars

\* C12 witness: no delete has failed, Google Calendar holds two destination
\* events of e1, and the row records the one the request's pass created.
C12_Witness ==
    /\ platform_events[<<"google", "e1">>].live = 2
    /\ platform_events[<<"google", "e1">>].delete_failed = 0
    /\ manual.pc = "loop"
    /\ manual.new_events_count = 1
    /\ "e1" \in DOMAIN event_mappings
    /\ event_mappings["e1"].google_id = <<"google", "e1", 0>>

(***************************************************************************)
(* C13.  If processing one event of the batch raises an exception, the     *)
(* exception is caught for that event alone and the pass goes on to the    *)
(* later events of the batch.                                              *)
(***************************************************************************)
C13_LaterEventsStillProcessed ==
    [][(/\ pc = "loop"
        /\ idx + 1 < Len(an_events)
        /\ Raises(StepEvent))
       => (pc' = "loop" /\ idx' = idx + 1 /\ an_events' = an_events)]_vars

\* The platform's credentials are present.
HasCredentials(platform) ==
    IF platform = "google" THEN google_service ELSE discord_configured

\* Every operation of the platform's adapter, applied to a fetched event and a
\* destination id, returns failure and issues no call.
AdapterRefuses(platform, an_event, dest) ==
    \A api_ok \in BOOLEAN :
        LET event_id == ExtractId(an_event)
            refused(r, failure) == r.value = failure /\ r.calls = <<>>
        IN  IF platform = "google"
            THEN /\ create_google_event(an_event, event_id, api_ok) = NoGoogleEvent
                 /\ refused(update_google_event(dest, CalendarOf("#dsa"), an_event,
                                                event_id, api_ok), None)
                 /\ refused(delete_google_event(dest, CalendarOf("#dsa"), event_id,
                                                api_ok), FALSE)
            ELSE /\ refused(create_discord_event_direct(
                                an_event, transform_to_google_event(an_event),
                                event_id, api_ok), None)
                 /\ refused(update_discord_event_direct(
                                dest, an_event, transform_to_google_event(an_event),
                                event_id, api_ok), None)
                 /\ refused(delete_discord_event_direct(dest, event_id, api_ok), FALSE)

(***************************************************************************)
(* C14.  In no reachable state has a call been issued to a platform whose  *)
(* credentials are missing, and on such a platform the create, the update  *)
(* and the delete operation of the adapter each return failure without     *)
(* making a call.                                                          *)
(***************************************************************************)
C14_NoCallWithoutCredentials ==
    /\ \A i \in 1..Len(calls) : HasCredentials(calls[i].platform)
    /\ \A platform \in Platforms :
          ~HasCredentials(platform)
          => \A i \in 1..Len(an_events) :
                AdapterRefuses(platform, an_events[i],
                               NewDestinationId(platform, ExtractId(an_events[i])))

\* C14 witness: with Discord unconfigured, an event was created on Google
\* Calendar alone and its row records no Discord id.
C14_Witness ==
    /\ AfterProcessStep
    /\ ~discord_configured
    /\ Succeeded(calls, "create", "google")
    /\ CallsOf(calls, "create", "discord") = {}
    /\ LastId \in DOMAIN event_mappings
    /\ event_mappings[LastId].discord_id = None

\* The last segment of a sequence of segments, "" for the empty sequence.
LastSegment(segments) == IF segments = <<>> THEN "" ELSE segments[Len(segments)]

\* The id of the priority order as stated: a string with a colon first, then a
\* string without one, then the id field, then the URL.
PriorityOrderId(an_event) ==
    LET ids == an_event.identifiers
        with_colon == {i \in 1..Len(ids) : Len(ids[i]) > 1}
        without    == {i \in 1..Len(ids) : Len(ids[i]) = 1}
        first(S)   == CHOOSE i \in S : \A j \in S : i <= j
    IN  IF with_colon # {} /\ LastSegment(ids[first(with_colon)]) # ""
        THEN LastSegment(ids[first(with_colon)])
        ELSE IF without # {} /\ ids[first(without)][1] # ""
        THEN ids[first(without)][1]
        ELSE IF an_event.id # "" THEN an_event.id
        ELSE LastSegment(an_event.browser_url)

\* The id when the first entry of identifiers that is a string decides alone.
FirstStringId(an_event) ==
    LET ids == an_event.identifiers
        strings == {i \in 1..Len(ids) : Len(ids[i]) >= 1}
        first   == CHOOSE i \in strings : \A j \in strings : i <= j
    IN  IF strings # {} /\ LastSegment(ids[first]) # ""
        THEN LastSegment(ids[first])
        ELSE IF an_event.id # "" THEN an_event.id
        ELSE LastSegment(an_event.browser_url)

\* The engine treats the event under this id: every call it issues is for the
\* id, and no row of another id appears or disappears.
TreatedAs(event_id) ==
    /\ \A i \in 1..Len(calls') : calls'[i].event_id = event_id
    /\ \A k \in (DOMAIN event_mappings' \ DOMAIN event_mappings)
              \cup (DOMAIN event_mappings \ DOMAIN event_mappings') : k = event_id
    /\ (new_events_count' = new_events_count + 1) => event_id \in DOMAIN event_mappings'

(***************************************************************************)
(* C15.  As stated: every event is treated under the id of the priority    *)
(* order (1) first identifier string with a colon, cut to the suffix after *)
(* its last colon, (2) first identifier string without a colon, (3) the id *)
(* field, (4) the last path segment of browser_url; a string with a colon  *)
(* wins even when a string without one precedes it.                        *)
(***************************************************************************)
C15_PriorityOrder ==
    [][IsProcessStep => TreatedAs(PriorityOrderId(StepEvent))]_vars

(***************************************************************************)
(* C15, amended.  Every event is treated under the id given by the first   *)
(* entry of identifiers that is a string: the suffix after its last colon  *)
(* if it has one, the string itself otherwise; later entries are never     *)
(* looked at.  If there is no such entry or it gives the empty string, the *)
(* id field is used, and if that is empty the last path segment of         *)
(* browser_url.                                                            *)
(***************************************************************************)
C15_FirstStringDecides ==
    [][IsProcessStep => TreatedAs(FirstStringId(StepEvent))]_vars

\* C15 witness: the event with identifiers ["plain", "action_network:abc-123"]
\* was created and its row is kept under "plain".
C15_Witness ==
    /\ AfterProcessStep
    /\ LastEvent.identifiers = << <<"plain">>, <<"action_network", "abc-123">> >>
    /\ new_events_count > 0
    /\ calls # <<>>
    /\ "plain" \in DOMAIN event_mappings
    /\ "abc-123" \notin DOMAIN event_mappings

\* None of the four sources of an id yields one.
NoIdSource(an_event) ==
    /\ \A i \in 1..Len(an_event.identifiers) :
          LastSegment(an_event.identifiers[i]) = ""
    /\ an_event.id = ""
    /\ LastSegment(an_event.browser_url) = ""

(***************************************************************************)
(* C16.  An event for which the identifiers, the id field and browser_url  *)
(* all yield nothing is skipped: no platform call is issued for it and the *)
(* mapping table is left as it was.                                        *)
(***************************************************************************)
C16_NoIdEventSkipped ==
    [][(IsProcessStep /\ NoIdSource(StepEvent))
       => (/\ calls' = <<>>
           /\ event_mappings' = event_mappings
           /\ new_events_count' = new_events_count)]_vars

\* C16 witness: on a service with Google Calendar configured, a confirmed event
\* whose browser_url ends in a slash and that has no other id was passed over,
\* while the table holds the row of an event created before.
C16_Witness ==
    /\ AfterProcessStep
    /\ google_service
    /\ calendar_ids = AllCalendars
    /\ NoIdSource(LastEvent)
    /\ LastEvent.browser_url = EventUrlSlash
    /\ LastEvent.status = "confirmed"
    /\ calls = <<>>
    /\ DOMAIN event_mappings # {}

\* The place of a hashtag in the declaration order.
DeclarationRank(hashtag) ==
    CASE hashtag = "#dsa" -> 1
      [] hashtag = "#action" -> 2
      [] hashtag = "#education" -> 3
      [] hashtag = "#outreach" -> 4
      [] hashtag = "#social" -> 5
      [] hashtag = "#steering" -> 6
      [] hashtag = "#volunteer" -> 7

\* The calendar of the earliest-declared hashtag among the candidates, the
\* default calendar if there is none.
CalendarOfEarliest(candidates) ==
    IF candidates = {} THEN calendar_ids["#dsa"]
    ELSE calendar_ids[CHOOSE h \in candidates :
                         \A o \in candidates : DeclarationRank(h) <= DeclarationRank(o)]

Occurring(description) == {h \in DOMAIN calendar_ids : HashtagIn(h, description)}

\* The engine creates the event in this calendar, or not at all on Google
\* Calendar when there is none.
RoutedTo(calendar_id) ==
    IF Truthy(calendar_id)
    THEN /\ CallsOf(calls', "create", "google") # {}
         /\ Succeeded(calls', "create", "google")
              => event_mappings'[StepId].google_calendar_id = calendar_id
    ELSE CallsOf(calls', "create", "google") = {}

IsCreateStep ==
    /\ IsProcessStep
    /\ StepId # ""
    /\ StepEvent.status # "cancelled"
    /\ StepId \notin DOMAIN event_mappings
    /\ transform_to_google_event(StepEvent) # None

C18_RecreatedOnEveryConfiguredPlatform ==
    [][(IsCreateStep /\ event_mappings = <<>>)
       => \A p \in Platforms :
             Configured(p, StepEvent) => CallsOf(calls', "create", p) # {}]_vars

\* After a /clear-mappings request the event is created again on Google
\* Calendar, which still holds its destination event from before.
C18_RecreatedBesideLiveEvent ==
    /\ AfterProcessStep
    /\ platform_events[<<"google", LastId>>].live = 2
    /\ platform_events[<<"google", LastId>>].delete_failed = 0
    /\ Succeeded(calls, "create", "google")

\* The timestamp moved on by a number of hours, written as UTC with a Z.
HoursLater(t, hours) ==
    LET hour == (IF t.has_time THEN t.hour ELSE 0) + hours IN
    [parseable |-> TRUE,
     date      |-> IF hour < 24 THEN t.date ELSE NextDay(t.date),
     has_time  |-> TRUE,
     sep       |-> "T",
     hour      |-> hour % 24,
     zone      |-> "Z"]

\* Central daylight time of 2025: from 9 March 03:00 (02:00 becomes 03:00) to
\* 2 November, when 02:00 becomes 01:00 again.  The hour 02 of 9 March does not
\* exist and the hour 01 of 2 November occurs in both times.
InDaylightTime(t) ==
    LET h == IF t.has_time THEN t.hour ELSE 0 IN
    \/ t.date[2] \in 4..10
    \/ t.date[2] = 3 /\ (t.date[3] > 9 \/ (t.date[3] = 9 /\ h >= 3))
    \/ t.date[2] = 11 /\ (t.date[3] < 2 \/ (t.date[3] = 2 /\ h < 1))

InStandardTime(t) ==
    LET h == IF t.has_time THEN t.hour ELSE 0 IN
    \/ t.date[2] \in {1, 2, 12}
    \/ t.date[2] = 3 /\ (t.date[3] < 9 \/ (t.date[3] = 9 /\ h < 2))
    \/ t.date[2] = 11 /\ (t.date[3] > 2 \/ (t.date[3] = 2 /\ h >= 2))

\* The result is the input read as Central time and written as UTC.
ConvertedFromCentral(t, out) ==
    /\ InDaylightTime(t) => out = HoursLater(t, 5)
    /\ InStandardTime(t) => out = HoursLater(t, 6)
    /\ out \in {HoursLater(t, 5), HoursLater(t, 6)}

(***************************************************************************)
(* C19.  A parseable timestamp ending in Z is converted to the timestamp   *)
(* five hours later during Central daylight time and six hours later       *)
(* during Central standard time, with date rollover, written with a Z;     *)
(* 2025-07-01T19:00:00Z becomes 2025-07-02T00:00:00Z.                      *)
(***************************************************************************)
C19_ZSuffixReadAsCentral ==
    /\ (utc_time # None /\ time_str.zone = "Z" /\ time_str.parseable)
         => ConvertedFromCentral(time_str, utc_time)
    /\ (utc_time # None
        /\ time_str = TimeString(TRUE, <<2025, 7, 1>>, TRUE, "T", 19, "Z"))
         => utc_time = TimeString(TRUE, <<2025, 7, 2>>, TRUE, "T", 0, "Z")

\* C19 witness: 2025-12-31T20:00:00Z, standard time, became 2026-01-01T02:00:00Z.
C19_Witness ==
    /\ time_str = TimeString(TRUE, <<2025, 12, 31>>, TRUE, "T", 20, "Z")
    /\ utc_time = TimeString(TRUE, <<2026, 1, 1>>, TRUE, "T", 2, "Z")

(***************************************************************************)
(* C20.  A parseable timestamp with neither a Z nor a numeric offset, a    *)
(* date alone included, is read as Central time and converted to UTC; it   *)
(* is never returned unchanged.                                            *)
(***************************************************************************)
C20_UnzonedReadAsCentral ==
    (utc_time # None /\ time_str.zone = "" /\ time_str.parseable)
      => (utc_time # time_str /\ ConvertedFromCentral(time_str, utc_time))

\* A date-time without a zone, written with a T, is converted.
C20_UnzonedDateTimeConverted ==
    /\ time_str = TimeString(TRUE, <<2025, 7, 1>>, TRUE, "T", 19, "")
    /\ utc_time = TimeString(TRUE, <<2025, 7, 2>>, TRUE, "T", 0, "Z")

(***************************************************************************)
(* C21: for every source description and registration URL, the description *)
(* delivered to Discord has at most 1000 characters, and when the text     *)
(* before the limit was applied had more than 1000 characters, the         *)
(* delivered text is its first 997 characters followed by "...".           *)
(***************************************************************************)
\* The i-th character of a text.
RECURSIVE CharAt(_, _)
CharAt(text, i) ==
    IF i <= Head(text).n THEN Head(text).ch ELSE CharAt(Tail(text), i - Head(text).n)

Untruncated == untruncated_description(delivery.description, delivery.registration_url)

C21_DeliveredWithinLimit ==
    delivery # None =>
        LET text == Untruncated
        IN  /\ len(delivery.delivered) <= 1000
            /\ len(text) > 1000 =>
                  /\ len(delivery.delivered) = 1000
                  /\ \A i \in 1..997 :
                        CharAt(delivery.delivered, i) = CharAt(text, i)
                  /\ \A i \in 998..1000 : CharAt(delivery.delivered, i) = "."

C21_Witness ==
    /\ delivery # None
    /\ len(Untruncated) = 1001
    /\ delivery.registration_url # <<>>
    /\ len(delivery.delivered) = 1000
    /\ delivery.delivered # Untruncated

(***************************************************************************)
(* C22: the background loop is never ended by an error: after a sync pass  *)
(* has returned, with a summary or with an error value, the loop goes back *)
(* to waiting, and from waiting it starts another pass; sync passes are    *)
(* started infinitely often.                                               *)
(***************************************************************************)
PassReturned == pc = "returned"

Waiting == pc = "idle"

PassStarted == pc = "loop"

C22_PassesStartedInfinitelyOften ==
    /\ PassReturned ~> Waiting
    /\ Waiting ~> PassStarted
    /\ []<>PassStarted

C22_Witness ==
    /\ PassReturned
    /\ "error" \in DOMAIN result

(***************************************************************************)
(* C23: when a transformed event has a start time and no end time, the end *)
(* time is the start time plus exactly 2 hours, on the next day when the   *)
(* start is at 22:00 or later; when the start time cannot be parsed, the   *)
(* end time is the start time.  2025-12-31T23:00:00Z gives                 *)
(* 2026-01-01T01:00:00Z.                                                   *)
(***************************************************************************)
\* The time of day datetime.fromisoformat reads in a start time.
StartHour(t) ==
    IF t.has_time THEN t.hour ELSE IF t.zone = "-05:00" THEN 5 ELSE 0

\* The offset the end is written with: that of the start, +00:00 written as Z.
EndZone(t) ==
    IF ~t.has_time THEN "" ELSE IF t.zone = "+00:00" THEN "Z" ELSE t.zone

C23_EndTwoHoursAfterStart ==
    end_date # None =>
        IF utc_time.parseable
        THEN /\ end_date.parseable /\ end_date.has_time
             /\ end_date.hour = (IF StartHour(utc_time) >= 22
                                 THEN StartHour(utc_time) - 22
                                 ELSE StartHour(utc_time) + 2)
             /\ end_date.date = (IF StartHour(utc_time) >= 22
                                 THEN NextDay(utc_time.date)
                                 ELSE utc_time.date)
             /\ end_date.zone = EndZone(utc_time)
        ELSE end_date = utc_time

C23_Witness ==
    /\ utc_time = TimeString(TRUE, <<2025, 12, 31>>, TRUE, "T", 23, "Z")
    /\ end_date = TimeString(TRUE, <<2026, 1, 1>>, TRUE, "T", 1, "Z")

(***************************************************************************)
(* C24: an adapter reports success to the engine only on the platform's    *)
(* success outcome (Discord create and update: status 200; Discord delete: *)
(* status 204; Google: the call returning without raising) and failure on  *)
(* every other status and on a raised error; a raised error does not end   *)
(* the pass; a create yields an id only on success.                        *)
(***************************************************************************)
SuccessOutcome(platform, op, answer) ==
    CASE platform = "google" -> answer.raised = FALSE
      [] platform = "discord" /\ op \in {"create", "update"} ->
            answer.raised = FALSE /\ answer.status_code = 200
      [] platform = "discord" /\ op = "delete" ->
            answer.raised = FALSE /\ answer.status_code = 204

C24_SuccessOnlyOnSuccessOutcome ==
    \A i \in 1..Len(calls) :
        /\ calls[i].ok <=> SuccessOutcome(calls[i].platform, calls[i].op,
                                          answers[calls[i].platform])
        /\ calls[i].op = "create" => (Truthy(calls[i].dest) <=> calls[i].ok)
        /\ pc = "loop"
        /\ (LastId \in DOMAIN event_mappings /\ ~calls[i].ok /\ calls[i].op = "create")
             => ~Truthy(RecordedId(event_mappings[LastId], calls[i].platform))

C24_Witness ==
    /\ \E i \in 1..Len(calls) :
          /\ calls[i].platform = "discord" /\ calls[i].op = "delete"
          /\ answers.discord = Answer(FALSE, 200)
          /\ ~calls[i].ok
    /\ \E i \in 1..Len(calls) :
          /\ calls[i].platform = "google" /\ calls[i].op = "delete"
          /\ answers.google.raised
          /\ ~calls[i].ok

(***************************************************************************)
(* C25: in every reachable state every mapping row has a non-empty         *)
(* google_id and a non-empty google_calendar_id; no row holds only a       *)
(* Discord id.                                                             *)
(***************************************************************************)
C25_EveryRowHoldsGoogleIds ==
    \A s \in DOMAIN event_mappings :
        /\ Truthy(event_mappings[s].google_id)
        /\ Truthy(event_mappings[s].google_calendar_id)

C25_Witness ==
    /\ AfterProcessStep
    /\ Succeeded(calls, "create", "google")
    /\ CallsOf(calls, "create", "discord") # {}
    /\ ~Succeeded(calls, "create", "discord")
    /\ LastId \in DOMAIN event_mappings
    /\ ~Truthy(event_mappings[LastId].discord_id)

(***************************************************************************)
(* C26: as long as a mapping row exists, its discord_id, google_id and     *)
(* google_calendar_id are the ones recorded at creation: no step of a sync *)
(* pass and no /force-update changes them in a row it keeps, and every     *)
(* update call carries the recorded id and, on Google Calendar, goes to    *)
(* the recorded calendar, also when the description now routes the event   *)
(* to another calendar.                                                    *)
(***************************************************************************)
C26_IdsAndCalendarKept ==
    [][/\ \A s \in DOMAIN event_mappings \cap DOMAIN event_mappings' :
            /\ event_mappings'[s].discord_id = event_mappings[s].discord_id
            /\ event_mappings'[s].google_id = event_mappings[s].google_id
            /\ event_mappings'[s].google_calendar_id = event_mappings[s].google_calendar_id
            /\ event_mappings'[s].action_network_url = event_mappings[s].action_network_url
       /\ \A i \in 1..Len(calls') :
            calls'[i].op = "update" =>
               /\ calls'[i].event_id \in DOMAIN event_mappings
               /\ calls'[i].dest = RecordedId(event_mappings[calls'[i].event_id],
                                              calls'[i].platform)
               /\ calls'[i].platform = "google" =>
                     calls'[i].calendar_id
                       = event_mappings[calls'[i].event_id].google_calendar_id]_vars

C26_Witness ==
    /\ pc = "idle"
    /\ Succeeded(calls, "update", "google")
    /\ \E s \in DOMAIN event_mappings :
          /\ event_mappings[s].title = TitleOf(2)
          /\ event_mappings[s].google_calendar_id = CalendarOf("#outreach")
          /\ calls[1].calendar_id = CalendarOf("#outreach")

(***************************************************************************)
(* C29: in every state reachable by sync passes, /force-update requests    *)
(* and /clear-mappings requests, no mapping row records the status         *)
(* cancelled.                                                              *)
(***************************************************************************)
C29_NoRowRecordsCancelled ==
    \A s \in DOMAIN event_mappings : event_mappings[s].status # "cancelled"

(***************************************************************************)
(* C27: a mapping row is removed only by the step of a sync pass that      *)
(* processes its event fetched with status cancelled, or by                *)
(* /clear-mappings; a step that processes another event issues no call for *)
(* a mapped source id and leaves its row as it is, and so does the fetch   *)
(* and the end of a pass, so that a pass whose batch does not contain a    *)
(* mapped source id issues no call for it and leaves its row unchanged.    *)
(***************************************************************************)
IsClearStep == pc = "idle" /\ pc' = "idle" /\ event_mappings' = <<>>

C27_RowRemovedOnlyByCancelOrClear ==
    [][/\ \A s \in DOMAIN event_mappings \ DOMAIN event_mappings' :
            \/ IsProcessStep /\ StepId = s /\ StepEvent.status = "cancelled"
            \/ IsClearStep
       /\ IsProcessStep =>
            \A s \in DOMAIN event_mappings \ {StepId} :
                /\ s \in DOMAIN event_mappings'
                /\ event_mappings'[s] = event_mappings[s]
                /\ \A i \in 1..Len(calls') : calls'[i].event_id # s
       /\ (~IsProcessStep /\ ~IsClearStep) =>
            /\ event_mappings' = event_mappings
            /\ calls' = <<>>]_vars

\* A pass that fetched e2 alone has deleted it, the row of e1 being there.
C27_Witness ==
    /\ AfterProcessStep
    /\ Len(an_events) = 1
    /\ LastId = "e2"
    /\ Succeeded(calls, "delete", "google")
    /\ DOMAIN event_mappings = {"e1"}

(***************************************************************************)
(* C28: when a pass fetches a mapped event with the status and             *)
(* last_modified the previous pass fetched, and the row still differs from *)
(* them (the update of the previous pass failed on every platform holding  *)
(* a recorded id), the pass issues an update call on every platform        *)
(* holding a recorded id again; it rewrites the row if one of them         *)
(* succeeds and leaves it otherwise.  When the row records the fetched     *)
(* status and last_modified (an earlier update succeeded somewhere), the   *)
(* pass issues no call for the event, whichever platform had failed.       *)
(***************************************************************************)
SameAsPreviousPass ==
    prev[StepId] = [status |-> StepEvent.status, modified_date |-> StepEvent.modified_date]

C28_RetriedUntilOneSucceeds ==
    [][(/\ IsProcessStep
        /\ StepId \in DOMAIN event_mappings
        /\ StepEvent.status # "cancelled"
        /\ SameAsPreviousPass
        /\ transform_to_google_event(StepEvent) # None)
       => IF RowMatches(event_mappings[StepId], StepEvent)
          THEN calls' = <<>> /\ event_mappings' = event_mappings
          ELSE /\ \A p \in Platforms :
                     Truthy(RecordedId(event_mappings[StepId], p))
                        => \E i \in CallsOf(calls', "update", p) :
                              calls'[i].dest = RecordedId(event_mappings[StepId], p)
               /\ IF \E i \in 1..Len(calls') : calls'[i].ok
                  THEN RowMatches(event_mappings'[StepId], StepEvent)
                  ELSE event_mappings' = event_mappings]_vars

\* A retry in which Google Calendar was updated and Discord failed again.
C28_Witness ==
    /\ AfterProcessStep
    /\ prev[LastId] = [status |-> LastEvent.status, modified_date |-> LastEvent.modified_date]
    /\ Succeeded(calls, "update", "google")
    /\ CallsOf(calls, "update", "discord") # {}
    /\ ~Succeeded(calls, "update", "discord")
    /\ RowMatches(event_mappings[LastId], LastEvent)

(***************************************************************************)
(* C30: in the summary a sync pass returns, deleted_events is the number   *)
(* of platform delete calls that succeeded in the pass, new_events the     *)
(* number of mapping rows added in the pass and updated_events the number  *)
(* of mapping rows whose metadata was rewritten in the pass: every step of *)
(* the loop adds to each counter what it did, and the summary returns the  *)
(* counters.                                                               *)
(***************************************************************************)
SuccessfulDeletes(cs) == Cardinality({i \in 1..Len(cs) : cs[i].op = "delete" /\ cs[i].ok})

RowsAdded == Cardinality(DOMAIN event_mappings' \ DOMAIN event_mappings)

RowsRewritten ==
    Cardinality({s \in DOMAIN event_mappings \cap DOMAIN event_mappings' :
                    event_mappings'[s] # event_mappings[s]})

SummaryReturnsCounters ==
    (pc = "loop" /\ pc' = "returned")
      => result' = [new_events     |-> new_events_count,
                    updated_events |-> updated_events_count,
                    deleted_events |-> deleted_events_count]

C30_SummaryCountsWhatHappened ==
    [][/\ IsProcessStep =>
            /\ deleted_events_count' = deleted_events_count + SuccessfulDeletes(calls')
            /\ new_events_count' = new_events_count + RowsAdded
            /\ updated_events_count' = updated_events_count + RowsRewritten
       /\ SummaryReturnsCounters]_vars

\* What holds of the counters: rows added, rows rewritten, and for deletions
\* the Google deletes that succeeded plus the rows that recorded a Discord id.
C30_NewAndUpdatedCounted ==
    [][/\ IsProcessStep =>
            /\ new_events_count' = new_events_count + RowsAdded
            /\ updated_events_count' = updated_events_count + RowsRewritten
            /\ deleted_events_count' >= deleted_events_count + SuccessfulDeletes(calls')
       /\ SummaryReturnsCounters]_vars

(***************************************************************************)
(* C31: when the row of a mapped event is removed, by /clear-mappings or   *)
(* by the cancelled path of another pass, between the check that the event *)
(* is mapped and the later access to the row, the pass goes on with the    *)
(* next event of its batch and does not return an error.                   *)
(***************************************************************************)
RowRemovedUnderPass == pc = "writing" /\ pending.event_id \notin DOMAIN event_mappings

C31_PassSurvivesConcurrentRemoval ==
    [][(RowRemovedUnderPass /\ pc' # "writing")
       => (/\ pc' = "loop"
           /\ idx' = idx + 1
           /\ an_events' = an_events
           /\ result' = result)]_vars

\* What holds: the pass goes on when it needs the row no more, every update
\* having failed.
C31_SurvivesWhenRowNotNeeded ==
    [][(RowRemovedUnderPass /\ pending.access = "none" /\ pc' # "writing")
       => (/\ pc' = "loop"
           /\ idx' = idx + 1
           /\ an_events' = an_events
           /\ result' = result)]_vars

(***************************************************************************)
(* C32: every platform call returning, every sync pass terminates: a pass  *)
(* that has fetched its batch eventually returns; until then it handles    *)
(* the events one at a time in the order of the batch, none twice; and     *)
(* what it returns is a count summary or an error value.                   *)
(***************************************************************************)
IsSummary(r) == DOMAIN r = {"new_events", "updated_events", "deleted_events"}

IsErrorValue(r) == DOMAIN r = {"error"}

C32_EveryPassTerminates ==
    /\ PassStarted ~> PassReturned
    /\ [][/\ (pc = "loop" /\ pc' = "loop") =>
                /\ idx' = idx + 1
                /\ idx' <= Len(an_events)
                /\ an_events' = an_events
          /\ (pc = "loop" /\ pc' # "loop") =>
                /\ pc' = "returned"
                /\ IsSummary(result') \/ IsErrorValue(result')
                /\ IsSummary(result') => idx = Len(an_events)]_vars

\* A pass has handled the two events of its batch, the second after the first.
C32_Witness ==
    /\ pc = "loop"
    /\ Len(an_events) = 2
    /\ idx = 2
    /\ calls # <<>>

====
